---------------------------- MODULE Spec2Model ----------------------------
(***************************************************************************)
(* A model of the sacred-brain memory fabric: the Memory Governor's        *)
(* durable write-back queue and worker, its working store, the Hippocampus *)
(* storage adapter with its in-memory fallback, and the reflection         *)
(* selector, the /observe, /consolidate and /recall handlers and the LLM   *)
(* client.  Each subsystem has its own specification (SpecQueue,           *)
(* SpecStore, SpecCursor, SpecAdapter, SpecReflect, SpecSalience,          *)
(* SpecObserve, SpecResend, SpecConsolidate, SpecScope, SpecRecall,        *)
(* SpecLlm, SpecQuery); the variables of the other subsystems stay at      *)
(* their initial value under it.                                           *)
(***************************************************************************)
EXTENDS Integers, Sequences, FiniteSets, TLC

(***************************************************************************)
(* Bounds of the model.                                                    *)
(***************************************************************************)
\* enqueue_memory calls made in one behaviour
MaxJobs == 2
\* process crashes in one behaviour
MaxCrashes == 2
\* downstream stores counted per job (the worker retries for ever)
MaxStored == 2
\* spool writes that raise in one behaviour
MaxWriteFails == 1

None == "None"

\* Python's `a or b`: the first operand unless it is falsy
Or(a, b) == IF a = None THEN b ELSE a

(***************************************************************************)
(* Durable queue, runtime queue and worker (memory_governor)               *)
(***************************************************************************)
VARIABLES
    up,           \* the governor process is running
    backlog,      \* DurableQueue.backlog
    spool,        \* lines of the durable.spool file
    queue_rt,     \* GovernorRuntime._queue_rt
    worker,       \* position of _worker_loop and the job it holds
    io,           \* the spool rewrite in progress, if any
    stored,       \* per job id: memories the downstream store accepted
    next_id,      \* stands for uuid4(): ids are fresh
    crashes,
    enq_started,  \* ids whose enqueue was entered
    enq_acked,    \* ids whose enqueue returned
    persist_failed, \* the spool writes that raised: operation and job id
    done_called,  \* ids for which the worker entered mark_done
    done_returned,\* ids whose mark_done returned
    spool_before, \* the spool as it was before the last rewrite began
    spool_after   \* the spool as the last rewrite is to leave it

VARIABLES
    rows,         \* the rows of working_events
    now,          \* time.time(), as an index into Clock
    last_add      \* the last add_working call: its event and what it returned

VARIABLES
    cursor,       \* consolidation_state: scope_key -> last_ts
    max_passed    \* per scope_key, the largest up_to_ts ever passed

VARIABLES
    primary,      \* the rows of the primary backend (Mem0Adapter.client)
    fallback,     \* InMemoryMem0Client._storage of the fallback_client
    next_mem,     \* stands for uuid4()
    last_call,    \* the last adapter call: arguments, outcome, stores before
    deleted,      \* ids for which delete_memory returned true
    added         \* the records add_memory returned from the SQLite backend

VARIABLES
    obs           \* the last /observe request: the event and what it did

VARIABLES
    sal           \* classify_observation: a text, a keyword and the saliences

VARIABLES
    cons          \* the last /consolidate request: the table, the batch, the counts

VARIABLES
    rec           \* the last /recall request: the candidates, the filters, the results

VARIABLES
    llm           \* LLMClient.generate_reply: the client, the attempts, the reply

VARIABLES
    qm            \* HippocampusClient.query_memories: the request, the GETs, the result

VARIABLES
    r_in,         \* reflection_pass: the candidates and the conversation
    r_out         \* reflection_pass: the line returned

qvars == <<up, backlog, spool, queue_rt, worker, io, stored, next_id, crashes,
           enq_started, enq_acked, persist_failed, done_called,
           done_returned, spool_before, spool_after>>
svars == <<rows, now, last_add>>
cvars == <<cursor, max_passed>>
avars == <<primary, fallback, next_mem, last_call, deleted, added>>
rvars == <<r_in, r_out>>
hvars == <<cons, rec, llm, qm>>
ovars == <<obs, sal, hvars>>
vars == <<qvars, svars, cvars, avars, rvars, ovars>>
nonq == <<svars, cvars, avars, rvars, ovars>>
nons == <<qvars, cvars, avars, rvars, ovars>>
nonc == <<qvars, svars, avars, rvars, ovars>>
nona == <<qvars, svars, cvars, rvars, ovars>>
nonr == <<qvars, svars, cvars, avars, ovars>>

StartId == 0
JobIds == StartId .. MaxJobs

\* A memory write request.  has_source: the request carries a top-level
\* "source" field, which the ingest endpoint requires (IngestEvent.source).
MemPayload(src) == [has_source |-> src]

\* The payloads /observe, /remember and /consolidate build: user_id, text and
\* metadata; the source is inside metadata, never at top level.
GovernorPayloads == {MemPayload(FALSE)}

\* DurableQueue.enqueue: job = {"id", "payload", "ts"}; ts is never read.
QueueJob(id, payload) == [id |-> id, payload |-> payload]

\* enqueue_memory wraps the memory request: {"type": "memory", "payload": p}
MemoryEnvelope(p) == [type |-> "memory", payload |-> p]

\* asyncio.Queue.put_nowait as a broken build would have it: a LIFO queue
put_first(q, job) == <<job>> \o q

\* asyncio.Queue.put_nowait: the job goes to the back of the queue
put_nowait(q, job) == Append(q, job)

\* start: for job in self.queue.pending(): self._queue_rt.put_nowait(job)
RECURSIVE PutAll(_, _)
PutAll(q, jobs) ==
    IF jobs = <<>> THEN q ELSE PutAll(put_nowait(q, Head(jobs)), Tail(jobs))

\* A job line of another writer found in the spool at start-up, with the
\* type at top level, as _process_job reads it.
FlatJob(id, p) == [id |-> id, type |-> "memory", payload |-> p]

\* dict.get(key)
DictGet(d, key) == IF key \in DOMAIN d THEN d[key] ELSE None

\* One line of the spool: json.dumps(job), or a fragment of it left by an
\* interrupted write.
Line(job) == [ok |-> TRUE, job |-> job]
TornLine(job) == [ok |-> FALSE, job |-> job]

RECURSIVE MapLines(_)
MapLines(jobs) ==
    IF jobs = <<>> THEN <<>> ELSE <<Line(Head(jobs))>> \o MapLines(Tail(jobs))

\* DurableQueue._persist: the text written, one line per backlog item
PersistLines(bl) == MapLines(bl)

RECURSIVE LoadLines(_)
LoadLines(lines) ==
    IF lines = <<>> THEN <<>>
    ELSE IF Head(lines).ok
         THEN <<Head(lines).job>> \o LoadLines(Tail(lines))
         ELSE LoadLines(Tail(lines))

\* DurableQueue._load: every line that parses as JSON becomes a job
Load(lines) == LoadLines(lines)

RECURSIVE RemoveId(_, _)
RemoveId(bl, id) ==
    IF bl = <<>> THEN <<>>
    ELSE IF Head(bl).id # id
         THEN <<Head(bl)>> \o RemoveId(Tail(bl), id)
         ELSE RemoveId(Tail(bl), id)

\* mark_done as a broken build would have it: the list is built from a
\* snapshot of the backlog taken before the later enqueues
MarkDoneStale(bl, id) == SelectSeq(bl, LAMBDA job : job.id < id)

\* DurableQueue.mark_done: the backlog without the items of that id
MarkDoneBacklog(bl, id) == RemoveId(bl, id)

IdsOf(jobs) == {jobs[k].id : k \in 1 .. Len(jobs)}

\* The spool files the process may find when it is first started.
StartSpools ==
    {<<>>} \cup {<<Line(FlatJob(StartId, MemPayload(s)))>> : s \in BOOLEAN}

NoIo == [op |-> "none", id |-> None]
NoJob == [id |-> -1]
IdleWorker == [pc |-> "idle", job |-> NoJob, accepted |-> FALSE]

InitQueue ==
    /\ up = TRUE
    /\ spool \in StartSpools
    /\ backlog = Load(spool)
    /\ queue_rt = backlog
    /\ worker = IdleWorker
    /\ io = NoIo
    /\ stored = [i \in JobIds |-> 0]
    /\ next_id = 1
    /\ crashes = 0
    /\ enq_started = IdsOf(backlog)
    /\ enq_acked = {}
    /\ persist_failed = {}
    /\ done_called = {}
    /\ done_returned = {}
    /\ spool_before = spool
    /\ spool_after = spool

\* open(path, "w") of Path.write_text truncates the file; the text is written
\* and the file closed afterwards (EnqueueReturn, MarkDoneReturn).
BeginRewrite(new_backlog, op, id) ==
    /\ backlog' = new_backlog
    /\ spool_before' = spool
    /\ spool_after' = PersistLines(new_backlog)
    /\ spool' = <<>>
    /\ io' = [op |-> op, id |-> id]

\* GovernorRuntime.enqueue_memory -> DurableQueue.enqueue, up to the opening
\* of the spool by _persist.
EnqueueMemory(p) ==
    /\ UNCHANGED nonq
    /\ up
    /\ io.op = "none"
    /\ next_id <= MaxJobs
    /\ BeginRewrite(Append(backlog, QueueJob(next_id, MemoryEnvelope(p))),
                    "enqueue", next_id)
    /\ enq_started' = enq_started \cup {next_id}
    /\ next_id' = next_id + 1
    /\ UNCHANGED <<up, queue_rt, worker, stored, crashes, enq_acked, persist_failed,
                   done_called, done_returned>>

\* _persist completes, enqueue returns the job, enqueue_memory puts it on the
\* runtime queue and returns its id.
EnqueueReturn ==
    /\ UNCHANGED nonq
    /\ up
    /\ io.op = "enqueue"
    /\ spool' = spool_after
    /\ queue_rt' = put_nowait(queue_rt, backlog[Len(backlog)])
    /\ enq_acked' = enq_acked \cup {io.id}
    /\ UNCHANGED persist_failed
    /\ io' = NoIo
    /\ UNCHANGED <<up, backlog, worker, stored, next_id, crashes, enq_started,
                   done_called, done_returned, spool_before, spool_after>>

\* What the ingest service answers (hippocampus_ingest.ingest, _post_memory):
\* 422 when the body is no IngestEvent, 200 {"logged", "status"} once the
\* store took the memory, 502 when the store failed; or no answer at all.
IngestOutcomes(p) ==
    {"neterr"} \cup (IF p.has_source THEN {"200", "502"} ELSE {"422"})

IngestBody == [logged |-> "true", status |-> "200"]

\* What the storage service answers to POST /memories (create_memory)
DirectOutcomes == {"error", "200"}

DirectBody == [memory |-> [id |-> "mem"]]

\* post_memory, the ingest branch: data.get("memory_id") or data.get("id")
IngestReturn(data) == Or(DictGet(data, "memory_id"), DictGet(data, "id"))

\* post_memory, the fallback: data.get("memory", {}).get("id") or data.get("id")
DirectReturn(data) ==
    Or(IF "memory" \in DOMAIN data THEN DictGet(data.memory, "id") ELSE None,
       DictGet(data, "id"))

\* _process_job: is this a job to write back
IsMemoryJob(job) == DictGet(job, "type") = "memory"

\* _process_job: the result for a job of type memory, from post_memory's
MemoryJobOk(memory_id) == memory_id # None

\* The worker enters mark_done(job["id"]) and opens the spool.
BeginMarkDone(job, accepted) ==
    /\ BeginRewrite(MarkDoneBacklog(backlog, job.id), "mark_done", job.id)
    /\ done_called' = done_called \cup {job.id}
    /\ worker' = [pc |-> "marking", job |-> job, accepted |-> accepted]

\* The retry branch as a broken build would have it: the failed job is given
\* up and the loop awaits the next one
BeginGiveUp(job, accepted) ==
    /\ worker' = IdleWorker
    /\ UNCHANGED <<backlog, spool, io, spool_before, spool_after, done_called>>

\* The worker fails the job: await asyncio.sleep(2)
BeginSleep(job, accepted) ==
    /\ worker' = [pc |-> "sleep", job |-> job, accepted |-> accepted]
    /\ UNCHANGED <<backlog, spool, io, spool_before, spool_after, done_called>>

\* _worker_loop: job = await self._queue_rt.get(), then _process_job up to
\* its first suspension: the POST to the ingest URL for a memory job; any
\* other job is ok at once and is marked done.
WorkerTake ==
    /\ UNCHANGED nonq
    /\ up
    /\ io.op = "none"
    /\ worker.pc = "idle"
    /\ queue_rt # <<>>
    /\ queue_rt' = Tail(queue_rt)
    /\ IF IsMemoryJob(Head(queue_rt))
       THEN /\ worker' = [pc |-> "ingest", job |-> Head(queue_rt),
                          accepted |-> FALSE]
            /\ UNCHANGED <<backlog, spool, io, spool_before, spool_after,
                           done_called>>
       ELSE BeginMarkDone(Head(queue_rt), FALSE)
    /\ UNCHANGED <<up, stored, next_id, crashes, enq_started, enq_acked, persist_failed,
                   done_returned>>

\* post_memory: the ingest POST resolves.  A 2xx returns the id found in the
\* body; anything else starts the direct POST to the storage service.
WorkerIngestReply ==
    /\ UNCHANGED nonq
    /\ up
    /\ io.op = "none"
    /\ worker.pc = "ingest"
    /\ \E out \in IngestOutcomes(DictGet(worker.job, "payload")) :
         IF out = "200"
         THEN /\ stored[worker.job.id] < MaxStored
              /\ stored' = [stored EXCEPT ![worker.job.id] = @ + 1]
              /\ IF MemoryJobOk(IngestReturn(IngestBody))
                 THEN BeginMarkDone(worker.job, TRUE)
                 ELSE BeginSleep(worker.job, TRUE)
         ELSE /\ worker' = [worker EXCEPT !.pc = "direct"]
              /\ UNCHANGED <<stored, backlog, spool, io, spool_before,
                             spool_after, done_called>>
    /\ UNCHANGED <<up, queue_rt, next_id, crashes, enq_started, enq_acked, persist_failed,
                   done_returned>>

\* post_memory: the direct POST resolves; _process_job returns whether an id
\* came back.
WorkerDirectReply ==
    /\ UNCHANGED nonq
    /\ up
    /\ io.op = "none"
    /\ worker.pc = "direct"
    /\ \E out \in DirectOutcomes :
         IF out = "200"
         THEN /\ stored[worker.job.id] < MaxStored
              /\ stored' = [stored EXCEPT ![worker.job.id] = @ + 1]
              /\ IF MemoryJobOk(DirectReturn(DirectBody))
                 THEN BeginMarkDone(worker.job, TRUE)
                 ELSE BeginSleep(worker.job, TRUE)
         ELSE /\ stored' = stored
              /\ BeginSleep(worker.job, FALSE)
    /\ UNCHANGED <<up, queue_rt, next_id, crashes, enq_started, enq_acked, persist_failed,
                   done_returned>>

\* mark_done's _persist completes and the loop awaits the next job.
MarkDoneReturn ==
    /\ UNCHANGED nonq
    /\ up
    /\ io.op = "mark_done"
    /\ spool' = spool_after
    /\ done_returned' = done_returned \cup {io.id}
    /\ worker' = IdleWorker
    /\ io' = NoIo
    /\ UNCHANGED <<up, backlog, queue_rt, stored, next_id, crashes,
                   enq_started, enq_acked, persist_failed, done_called, spool_before,
                   spool_after>>

\* The sleep is over: self._queue_rt.put_nowait(job)
WorkerRequeue ==
    /\ UNCHANGED nonq
    /\ up
    /\ io.op = "none"
    /\ worker.pc = "sleep"
    /\ queue_rt' = put_nowait(queue_rt, worker.job)
    /\ worker' = IdleWorker
    /\ UNCHANGED <<up, backlog, spool, io, stored, next_id, crashes,
                   enq_started, enq_acked, persist_failed, done_called, done_returned,
                   spool_before, spool_after>>

\* What an interrupted write_text may leave in the file opened with "w":
\* any prefix of the text, cut at a line end or inside a line.
TornOutcomes(lines) ==
    {SubSeq(lines, 1, k) : k \in 0 .. Len(lines)}
    \cup {Append(SubSeq(lines, 1, k), TornLine(lines[k + 1].job)) :
            k \in 0 .. Len(lines) - 1}

\* write_text raises inside enqueue's _persist (OSError: disk full, I/O
\* error), leaving some prefix of the text in the file.  Nothing catches it in
\* enqueue or enqueue_memory: the job appended to the backlog stays there, it
\* is not put on the runtime queue, and the request handler gets the
\* exception instead of the id.
EnqueueRaises ==
    /\ UNCHANGED nonq
    /\ up
    /\ io.op = "enqueue"
    /\ Cardinality(persist_failed) < MaxWriteFails
    /\ spool' \in TornOutcomes(spool_after)
    /\ persist_failed' = persist_failed \cup {io}
    /\ io' = NoIo
    /\ UNCHANGED <<up, backlog, queue_rt, worker, stored, next_id, crashes,
                   enq_started, enq_acked, done_called, done_returned,
                   spool_before, spool_after>>

\* write_text raises inside mark_done's _persist, after self.backlog was
\* replaced: _worker_loop's except Exception takes it, sleeps and re-pushes
\* the job.
MarkDoneRaises ==
    /\ UNCHANGED nonq
    /\ up
    /\ io.op = "mark_done"
    /\ Cardinality(persist_failed) < MaxWriteFails
    /\ spool' \in TornOutcomes(spool_after)
    /\ persist_failed' = persist_failed \cup {io}
    /\ io' = NoIo
    /\ worker' = [worker EXCEPT !.pc = "sleep"]
    /\ UNCHANGED <<up, backlog, queue_rt, stored, next_id, crashes,
                   enq_started, enq_acked, done_called, done_returned,
                   spool_before, spool_after>>

\* The process dies: everything in memory is gone, the file stays as it is.
Crash ==
    /\ UNCHANGED nonq
    /\ up
    /\ crashes < MaxCrashes
    /\ crashes' = crashes + 1
    /\ up' = FALSE
    /\ spool' \in (IF io.op = "none" THEN {spool} ELSE TornOutcomes(spool_after))
    /\ backlog' = <<>>
    /\ queue_rt' = <<>>
    /\ worker' = IdleWorker
    /\ io' = NoIo
    /\ UNCHANGED <<stored, next_id, enq_started, enq_acked, persist_failed, done_called,
                   done_returned, spool_before, spool_after>>

\* A new process: DurableQueue.__init__ loads the spool, start() puts every
\* pending job on a new runtime queue and starts the worker.
Restart ==
    /\ UNCHANGED nonq
    /\ ~up
    /\ up' = TRUE
    /\ backlog' = Load(spool)
    /\ queue_rt' = PutAll(<<>>, Load(spool))
    /\ worker' = IdleWorker
    /\ UNCHANGED <<spool, io, stored, next_id, crashes, enq_started, enq_acked, persist_failed,
                   done_called, done_returned, spool_before, spool_after>>

NextQueue ==
    \/ \E p \in GovernorPayloads : EnqueueMemory(p)
    \/ EnqueueReturn
    \/ WorkerTake
    \/ WorkerIngestReply
    \/ WorkerDirectReply
    \/ MarkDoneReturn
    \/ WorkerRequeue
    \/ EnqueueRaises
    \/ MarkDoneRaises
    \/ Crash
    \/ Restart

\* C1: after a crash and restart the jobs loaded from the spool are the jobs
\* enqueued minus the jobs marked done: every job whose enqueue returned and
\* that the worker has not marked done is in the backlog of the running
\* process, and nothing else is but a job whose enqueue was under way.
C1_QueueDurability ==
    up => /\ (enq_acked \ done_called) \subseteq IdsOf(backlog)
          /\ IdsOf(backlog) \subseteq (enq_started \ done_returned)

\* C2: the spool on disk is at every instant the complete backlog of before
\* the rewrite or the complete backlog of after it.
C2_AtomicRewrite == spool \in {spool_before, spool_after}

\* C3: a job is marked done only after its write-back was accepted downstream.
C3_DoneOnlyAfterWrite == \A i \in done_called : stored[i] > 0

C17_FifoModuloRetries ==
    [][(up /\ up') =>
          /\ (worker.pc = "idle" /\ worker'.pc # "idle") =>
                 /\ queue_rt # <<>>
                 /\ worker'.job = Head(queue_rt)
                 /\ queue_rt' = Tail(queue_rt)
          /\ (worker.pc = "sleep" /\ worker'.pc = "idle") =>
                 queue_rt' = queue_rt \o <<worker.job>>
          /\ (worker.pc = worker'.pc) =>
                 \/ queue_rt' = queue_rt
                 \/ /\ Len(queue_rt') = Len(queue_rt) + 1
                    /\ SubSeq(queue_rt', 1, Len(queue_rt)) = queue_rt
          /\ (worker.pc \notin {"idle", "sleep"} /\ worker'.pc # worker.pc) =>
                 queue_rt' = queue_rt]_vars

\* The job found in the spool at start-up was taken first, failed, and is
\* back at the tail, behind a job enqueued in the meantime.
C17_Witness ==
    /\ up
    /\ worker.pc = "idle"
    /\ Len(queue_rt) >= 2
    /\ queue_rt[Len(queue_rt)].id = StartId
    /\ queue_rt[1].id # StartId
    /\ crashes = 0

\* A job that failed and waits for its retry is in the backlog and, between
\* two rewrites, in the spool
FailedJobKept ==
    (up /\ worker.pc = "sleep")
        => /\ worker.job.id \in IdsOf(backlog)
           /\ io.op = "none" => worker.job.id \in IdsOf(Load(spool))

\* The worker's steps with a job it has taken: the job is marked done or
\* fails, never dropped; the failing step changes neither backlog nor spool;
\* after the sleep the job is at the tail of the runtime queue and the worker
\* awaits its next job
RetrySteps ==
    /\ worker.pc \in {"ingest", "direct"}
           => worker'.pc \in {"ingest", "direct", "marking", "sleep"}
    /\ (worker.pc # "sleep" /\ worker'.pc = "sleep")
           => /\ worker'.job = worker.job
              /\ backlog' = backlog
              /\ spool' = spool
    /\ (worker.pc = "sleep" /\ worker'.pc # "sleep")
           => /\ worker'.pc = "idle"
              /\ queue_rt' = Append(queue_rt, worker.job)
              /\ backlog' = backlog

C28_Serialized ==
    (up /\ crashes = 0)
        => /\ (enq_started \ done_called) \subseteq IdsOf(backlog)
           /\ IdsOf(backlog) \cap done_called = {}
           /\ \A i \in 1 .. Len(backlog), j \in 1 .. Len(backlog) :
                  i < j => backlog[i].id < backlog[j].id
           /\ (io.op = "none" /\ persist_failed = {})
                  => Load(spool) = backlog

\* mark_done is rewriting the spool for a job that was written downstream,
\* and a job enqueued after it is in the backlog
C28_Witness ==
    /\ up
    /\ crashes = 0
    /\ io.op = "mark_done"
    /\ stored[worker.job.id] > 0
    /\ \E k \in 1 .. Len(backlog) :
           /\ backlog[k].id \in enq_acked
           /\ backlog[k].id > worker.job.id

\* C29 as stated: an enqueue whose spool write failed has succeeded in
\* memory all the same: the job is in the backlog, it was handed to the
\* runtime queue, and the caller got its id.
C29_EnqueueSurvivesWriteFailure ==
    \A f \in persist_failed :
        (f.op = "enqueue" /\ up /\ crashes = 0)
            => /\ f.id \in IdsOf(backlog) \cup done_called
               /\ f.id \in enq_acked
               /\ \/ f.id \in IdsOf(queue_rt)
                  \/ worker.job.id = f.id
                  \/ f.id \in done_called

C36_BacklogScheduled ==
    (up /\ io.op = "none" /\ worker.pc = "idle")
        => \A i \in 1 .. Len(backlog) :
               \E j \in 1 .. Len(queue_rt) : queue_rt[j] = backlog[i]

(***************************************************************************)
(* Texts: sequences of characters                                          *)
(***************************************************************************)
\* mem_policy.canonicalize_memory: cleaned[:500]
CanonMaxLen == 500

IsSpace(c) == c = " "

\* str.lower(), one character
UpperCase ==
    <<"A", "B", "C", "D", "E", "F", "G", "H", "I", "J", "K", "L", "M", "N",
    "O", "P", "Q", "R", "S", "T", "U", "V", "W", "X", "Y", "Z">>

LowerCase ==
    <<"a", "b", "c", "d", "e", "f", "g", "h", "i", "j", "k", "l", "m", "n",
    "o", "p", "q", "r", "s", "t", "u", "v", "w", "x", "y", "z">>

LowerChar(c) ==
    IF \E i \in DOMAIN UpperCase : UpperCase[i] = c
    THEN LowerCase[CHOOSE i \in DOMAIN UpperCase : UpperCase[i] = c]
    ELSE c

RECURSIVE Lower(_)
Lower(t) == IF t = <<>> THEN <<>> ELSE <<LowerChar(Head(t))>> \o Lower(Tail(t))

Digits == {"0", "1", "2", "3", "4", "5", "6", "7", "8", "9"}

\* \w
IsWordChar(c) ==
    \/ \E i \in DOMAIN UpperCase : c \in {UpperCase[i], LowerCase[i]}
    \/ c \in Digits
    \/ c = "_"

\* str.startswith
StartsWith(t, p) == Len(t) >= Len(p) /\ SubSeq(t, 1, Len(p)) = p

\* re.sub(r"\s+", " ", text): every run of whitespace becomes one space
RECURSIVE CollapseSpaces(_)
CollapseSpaces(t) ==
    IF t = <<>> THEN <<>>
    ELSE IF IsSpace(Head(t))
         THEN IF Len(t) > 1 /\ IsSpace(t[2])
              THEN CollapseSpaces(Tail(t))
              ELSE <<" ">> \o CollapseSpaces(Tail(t))
         ELSE <<Head(t)>> \o CollapseSpaces(Tail(t))

RECURSIVE LStrip(_)
LStrip(t) == IF t # <<>> /\ IsSpace(Head(t)) THEN LStrip(Tail(t)) ELSE t

RECURSIVE RStrip(_)
RStrip(t) ==
    IF t # <<>> /\ IsSpace(t[Len(t)]) THEN RStrip(SubSeq(t, 1, Len(t) - 1)) ELSE t

\* str.strip()
Strip(t) == RStrip(LStrip(t))

\* text[:n]
Prefix(t, n) == SubSeq(t, 1, IF Len(t) < n THEN Len(t) ELSE n)

\* mem_policy.canonicalize_memory
canonicalize_memory(t) == Prefix(Strip(CollapseSpaces(t)), CanonMaxLen)

\* `needle in hay` for strings
Contains(hay, needle) ==
    \E k \in 0 .. Len(hay) - Len(needle) :
        SubSeq(hay, k + 1, k + Len(needle)) = needle

Range(seq) == {seq[i] : i \in DOMAIN seq}

(***************************************************************************)
(* Working store (memory_governor.store.WorkingStore)                      *)
(***************************************************************************)
\* rows the working_events table holds in one behaviour
MaxRows == 2

\* add_working: dedupe_cutoff = ts - 24 * 3600
DedupeWindow == 24 * 3600

\* WorkingStore.__init__: ttl_hours = 24
TtlHours == 24

Sources == {"s1", "s2"}
Users == {"u1", "u2"}
StoreTexts == {<<"a">>, <<" ", "A">>}
EventIds == {None, "", "e1"}
Clock == <<100000 + DedupeWindow, 100000 + DedupeWindow + 1>>
Timestamps == {0, 100000, 100000 + DedupeWindow, 100000 + DedupeWindow + 1}

Events ==
    [source : Sources, user_id : Users, text : StoreTexts,
     timestamp : Timestamps, event_id : EventIds]

\* Python truthiness of metadata.get("event_id")
Truthy(v) == v # None /\ v # ""

\* ts = int(event.timestamp or time.time())
EventTs(e, t) == IF e.timestamp = 0 THEN t ELSE e.timestamp

\* normalized = canonicalize_memory(event.text).lower()
Normalized(e) == Lower(canonicalize_memory(e.text))

\* The event test as a broken build would have it: the source is not compared
ExistingEventAnySource(rs, e) ==
    \E r \in rs : r.event_id = e.event_id

\* SELECT 1 FROM working_events WHERE source=? AND event_id=?
ExistingEvent(rs, e) ==
    \E r \in rs : r.source = e.source /\ r.event_id = e.event_id

\* The text check as a broken build would have it: ts > cutoff
ExistingNormStrict(rs, e, t) ==
    \E r \in rs :
        /\ r.user_id = e.user_id
        /\ r.normalized_text = Normalized(e)
        /\ r.ts > EventTs(e, t) - DedupeWindow

\* SELECT 1 FROM working_events WHERE user_id=? AND normalized_text=? AND ts>=?
ExistingNorm(rs, e, t) ==
    \E r \in rs :
        /\ r.user_id = e.user_id
        /\ r.normalized_text = Normalized(e)
        /\ r.ts >= EventTs(e, t) - DedupeWindow

\* The table as it would be without idx_working_event
NoUniqueIndex(rs, e) == FALSE

\* idx_working_event: UNIQUE (source, event_id) WHERE event_id IS NOT NULL
UniqueIndexRejects(rs, e) ==
    e.event_id # None /\ ExistingEvent(rs, e)

\* The columns of the new row that the store reads back: source, user_id,
\* normalized_text, ts, event_id.
NewRow(e, t) ==
    [source |-> e.source, user_id |-> e.user_id,
     normalized_text |-> Normalized(e), ts |-> EventTs(e, t),
     event_id |-> e.event_id]

\* WorkingStore.add_working: what it returns ("error": the INSERT raises
\* sqlite3.IntegrityError) and the table afterwards
add_working(rs, e, t) ==
    IF Truthy(e.event_id) /\ ExistingEvent(rs, e)
    THEN [status |-> "deduped_event", rows |-> rs]
    ELSE IF ExistingNorm(rs, e, t)
    THEN [status |-> "deduped_text", rows |-> rs]
    ELSE IF UniqueIndexRejects(rs, e)
    THEN [status |-> "error", rows |-> rs]
    ELSE [status |-> "inserted", rows |-> rs \cup {NewRow(e, t)}]

NoAdd == [event |-> [source |-> None], status |-> "none"]

InitStore ==
    /\ rows = {}
    /\ now = 1
    /\ last_add = NoAdd

AddWorking(e) ==
    /\ UNCHANGED nons
    /\ Cardinality(rows) < MaxRows
    /\ \E res \in {add_working(rows, e, Clock[now])} :
           /\ rows' = res.rows
           /\ last_add' = [event |-> e, status |-> res.status]
    /\ now' = now

\* WorkingStore.cleanup: DELETE FROM working_events WHERE ts < now - ttl
Cleanup ==
    /\ UNCHANGED nons
    /\ rows' = {r \in rows : ~(r.ts < Clock[now] - TtlHours * 3600)}
    /\ rows' # rows
    /\ UNCHANGED <<now, last_add>>

Tick ==
    /\ UNCHANGED nons
    /\ now < Len(Clock)
    /\ now' = now + 1
    /\ UNCHANGED <<rows, last_add>>

NextStore ==
    \/ \E e \in Events : AddWorking(e)
    \/ Cleanup
    \/ Tick

\* C5: the working store never holds two events with the same source and
\* the same non-null event_id.
C5_EventIdUnique ==
    \A r1 \in rows, r2 \in rows :
        (r1.source = r2.source /\ r1.event_id = r2.event_id
             /\ r1.event_id # None) => r1 = r2

\* A second observation with the (source, event_id) of a stored one, but of
\* another user, was turned away.
C5_Witness ==
    /\ last_add.status = "deduped_event"
    /\ \E r \in rows : /\ r.source = last_add.event.source
                       /\ r.event_id = last_add.event.event_id
                       /\ r.user_id # last_add.event.user_id

\* C6: the working store never holds two events of one user with the same
\* normalized text whose timestamps are within 24 hours of each other.
C6_TextUniqueInWindow ==
    \A r1 \in rows, r2 \in rows :
        (/\ r1.user_id = r2.user_id
         /\ r1.normalized_text = r2.normalized_text
         /\ r1.ts - r2.ts <= DedupeWindow
         /\ r2.ts - r1.ts <= DedupeWindow) => r1 = r2

\* An observation that arrived second but is dated exactly 24 hours before
\* the stored one, and differs from it in raw text, was turned away.
C6_Witness ==
    /\ last_add.status = "deduped_text"
    /\ last_add.event.timestamp # 0
    /\ \E r \in rows : /\ r.user_id = last_add.event.user_id
                       /\ r.normalized_text = Normalized(last_add.event)
                       /\ r.ts = last_add.event.timestamp + DedupeWindow
    /\ last_add.event.text # Normalized(last_add.event)


\* A stored event has the source and the event_id of e
SameEventStored(rs, e) ==
    \E r \in rs :
        r.source = e.source /\ r.event_id = e.event_id /\ e.event_id # None

\* add_working inserts e, as the row nr, and returns true
Inserts(rs, e, t, nr) ==
    /\ nr \notin rs
    /\ add_working(rs, e, t) = [status |-> "inserted", rows |-> rs \cup {nr}]

\* C26 as stated: add rejects exactly the duplicates: an event is inserted,
\* and true returned, unless a stored event has its source and event_id, or
\* its user and normalized text and a timestamp within 24 hours of its own,
\* before or after.
C26_AsStated ==
    \A e \in Events : \E nr \in {NewRow(e, Clock[now])} :
        Inserts(rows, e, Clock[now], nr)
            <=> ~(\/ SameEventStored(rows, e)
                  \/ \E r \in rows :
                         /\ r.user_id = e.user_id
                         /\ r.normalized_text = nr.normalized_text
                         /\ r.ts - nr.ts <= DedupeWindow
                         /\ nr.ts - r.ts <= DedupeWindow)

\* C26, amended: add rejects exactly the duplicates, where an event is a
\* duplicate if a stored event has its source and event_id, or its user and
\* normalized text and a timestamp no earlier than 24 hours before its own:
\* every other event is inserted and true returned.
C26_RejectsOnlyDuplicates ==
    \A e \in Events : \E nr \in {NewRow(e, Clock[now])} :
        Inserts(rows, e, Clock[now], nr)
            <=> ~(\/ SameEventStored(rows, e)
                  \/ \E r \in rows :
                         /\ r.user_id = e.user_id
                         /\ r.normalized_text = nr.normalized_text
                         /\ nr.ts - r.ts <= DedupeWindow)

\* an event was inserted whose text the same user has stored with a
\* timestamp more than 24 hours before its own
C26_Witness ==
    /\ last_add.status = "inserted"
    /\ NewRow(last_add.event, Clock[now]) \in rows
    /\ \E r \in rows :
           /\ r.user_id = last_add.event.user_id
           /\ r.normalized_text = Normalized(last_add.event)
           /\ r.ts < EventTs(last_add.event, Clock[now]) - DedupeWindow

(***************************************************************************)
(* Salience (memory_governor.mem_policy.classify_observation)              *)
(***************************************************************************)
\* Saliences are counted in units of 1/4000 (len(text) / 4000.0): 0.1 is
\* 400, 0.15 is 600, 0.2 is 800, 0.4 is 1600, 0.6 is 2400, 0.9 is 3600.
SalienceScale == 4000

\* _keyword_score: keywords
keywords ==
    <<<<"r", "e", "m", "e", "m", "b", "e", "r">>,
      <<"n", "o", "t", "e">>,
      <<"i", "m", "p", "o", "r", "t", "a", "n", "t">>,
      <<"p", "r", "e", "f", "e", "r">>,
      <<"a", "l", "w", "a", "y", "s">>,
      <<"n", "e", "v", "e", "r">>,
      <<"p", "l", "e", "a", "s", "e">>,
      <<"d", "o", " ", "n", "o", "t">>,
      <<"d", "o", "n", "'", "t">>,
      <<"t", "o", "d", "o">>,
      <<"t", "a", "s", "k">>,
      <<"t", "o", "m", "o", "r", "r", "o", "w">>,
      <<"n", "e", "x", "t", " ", "w", "e", "e", "k">>>>

\* classify_observation: the alternatives of the commitment pattern
BoostPhrases ==
    {<<"a", "l", "w", "a", "y", "s">>,
     <<"n", "e", "v", "e", "r">>,
     <<"p", "r", "e", "f", "e", "r">>,
     <<"i", " ", "w", "i", "l", "l">>,
     <<"i", "'", "l", "l">>,
     <<"p", "l", "e", "a", "s", "e", " ", "r", "e", "m", "e", "m", "b",
     "e", "r">>}

Min(a, b) == IF a < b THEN a ELSE b
Max(a, b) == IF a < b THEN b ELSE a

\* The keyword test as a broken build would have it: kw == text_l
KeywordIs(kw, text_l) == kw = text_l

\* _keyword_score: kw in text_l
KeywordIn(kw, text_l) == Contains(text_l, kw)

\* _keyword_score: min(1.0, 0.15 * hits)
_keyword_score(text) ==
    LET hits == Cardinality({i \in DOMAIN keywords :
                                 KeywordIn(keywords[i], Lower(text))})
    IN  Min(SalienceScale, 600 * hits)

\* re.search(r"\b(always|never|...)\b", text, re.IGNORECASE)
HasBoostPhrase(text) ==
    \E alt \in BoostPhrases, k \in 0 .. Len(text) :
        /\ k + Len(alt) <= Len(text)
        /\ SubSeq(Lower(text), k + 1, k + Len(alt)) = alt
        /\ k = 0 \/ ~IsWordChar(text[k])
        /\ k + Len(alt) = Len(text) \/ ~IsWordChar(text[k + Len(alt) + 1])

\* classify_observation: the salience of a text with metadata["reason"]
Salience(raw, reason) ==
    LET text == Strip(raw)
        base == 400 + Min(2000, Len(text)) + _keyword_score(text)
        marked == IF \/ StartsWith(Lower(text), <<"!", "r", "e", "m", "e",
                                             "m", "b", "e", "r">>)
                     \/ StartsWith(Lower(text), <<"!", "r", "e", "c", "a", "l", "l">>)
                     \/ reason = "explicit"
                  THEN Max(base, 3600) ELSE base
        boosted == IF HasBoostPhrase(text) THEN Max(marked, 2400) ELSE marked
    IN  Min(SalienceScale, boosted)

\* classify_observation: (salience, kind)
classify_observation(event) ==
    LET salience == Salience(event.text, event.reason)
    IN  [salience |-> salience,
         kind |-> IF salience < 800 THEN "ignore"
                  ELSE IF salience < 1600 THEN "working" ELSE "candidate"]

SalienceTexts ==
    {<<"h", "i">>,
     <<"n", "o", "t", "e">>,
     <<"a", "l", "w", "a", "y", "s">>,
     <<"d", "o", " ", "n", "o", "t", "e">>,
     <<"!", "r", "e", "m", "e", "m", "b", "e", "r", " ", "x">>,
     <<" ", "t", "a", "s", "k", " ">>}

Reasons == {None, "explicit"}

\* text[:at] + kw + text[at:]
Insert(text, at, kw) ==
    SubSeq(text, 1, at) \o kw \o SubSeq(text, at + 1, Len(text))

InitSalience ==
    sal \in UNION {{[text |-> t, kw |-> keywords[i], at |-> a, reason |-> r,
                     done |-> FALSE, original |-> 0, appended |-> 0,
                     inserted |-> 0] :
                        i \in DOMAIN keywords, a \in 0 .. Len(t),
                        r \in Reasons} : t \in SalienceTexts}

\* classify_observation on the text, on the text with the keyword appended as
\* a word of its own, and on the text with the keyword inserted at `at`
Classify ==
    /\ UNCHANGED <<qvars, svars, cvars, avars, rvars, obs, hvars>>
    /\ ~sal.done
    /\ sal' = [sal EXCEPT
                 !.done = TRUE,
                 !.original = Salience(sal.text, sal.reason),
                 !.appended = Salience(sal.text \o <<" ">> \o sal.kw, sal.reason),
                 !.inserted = Salience(Insert(sal.text, sal.at, sal.kw),
                                       sal.reason)]

NextSalience == Classify

SalienceAtRest ==
    sal = [text |-> <<>>, kw |-> keywords[1], at |-> 0, reason |-> None,
           done |-> FALSE, original |-> 0, appended |-> 0, inserted |-> 0]

\* C13 as stated: a watchlist keyword added to a text, wherever it is put,
\* never lowers the salience.
C13_AddedAnywhere == sal.done => sal.inserted >= sal.original

\* C13 amended: a watchlist keyword appended to a text as a word of its own
\* never lowers the salience.
C13_AppendedWord == sal.done => sal.appended >= sal.original

\* Appending the keyword raised the salience of a text whose salience the
\* same keyword, put inside the text, lowered.
C13_Witness ==
    /\ sal.done
    /\ sal.appended > sal.original
    /\ sal.inserted < sal.original

(***************************************************************************)
(* /observe (memory_governor.app.observe)                                  *)
(***************************************************************************)
ObserveTexts ==
    {<<"h", "i">>,
     <<"n", "o", "t", "e">>,
     <<"n", "o", "t", "e", " ", " ", "t", "o", "d", "o">>}

\* ObserveRequest: source, user_id, text, timestamp and the two metadata
\* entries the handler and the store read, event_id and reason
ObserveEvents ==
    [source : {"s1"}, user_id : {"u1"}, text : ObserveTexts,
     timestamp : {0}, event_id : EventIds, reason : Reasons]

\* observe, as a broken build would have it: every kept observation is queued
ShouldEnqueueKept(decision_kind) == decision_kind # "ignore"

\* observe: if decision_kind == "candidate"
ShouldEnqueue(decision_kind) == decision_kind = "candidate"

\* The decision of the response to a deduplicated observation
DedupedDecision == [salience |-> 0, kind |-> "ignore"]

\* observe: memory_payload = {"user_id", "text": payload.text, "metadata"},
\* the text as the request carries it
ObservePayload(e) == [has_source |-> FALSE, text |-> e.text]

\* mem_policy.canonicalize_memory's result: whitespace collapsed, trimmed, at
\* most 500 characters
IsCanonical(text) == text = canonicalize_memory(text)

\* observe: the table afterwards, the memory requests handed to
\* enqueue_memory, the decision of the response, and the order of the calls
\* to add_working and enqueue_memory.  status "error": add_working raised,
\* the handler is left without a response.
observe(rs, e, t) ==
    LET res == add_working(rs, e, t)
        decision == classify_observation(e)
    IN  IF res.status = "error"
        THEN [added |-> FALSE, status |-> res.status, rows |-> res.rows,
              jobs |-> <<>>, decision |-> DedupedDecision,
              effects |-> <<>>]
        ELSE IF res.status # "inserted"
        THEN [added |-> FALSE, status |-> res.status, rows |-> res.rows,
              jobs |-> <<>>, decision |-> DedupedDecision,
              effects |-> <<>>]
        ELSE IF ShouldEnqueue(decision.kind)
        THEN [added |-> TRUE, status |-> res.status, rows |-> res.rows,
              jobs |-> <<ObservePayload(e)>>, decision |-> decision,
              effects |-> <<"add_working", "enqueue_memory">>]
        ELSE [added |-> TRUE, status |-> res.status, rows |-> res.rows,
              jobs |-> <<>>, decision |-> decision,
              effects |-> <<"add_working">>]

\* POST /observe, from the request to the response, with o what observe
\* computes and table the working_events rows afterwards.  enqueue_memory
\* runs to its end: the job is in the backlog, in the spool and on the
\* runtime queue.
ObserveWith(e, o, table) ==
    LET job == QueueJob(next_id, MemoryEnvelope(o.jobs[1]))
    IN  /\ UNCHANGED <<cvars, avars, rvars, sal, hvars>>
        /\ up
        /\ io.op = "none"
        /\ Cardinality(rows) < MaxRows
        /\ o.jobs # <<>> => next_id <= MaxJobs
        /\ rows' = table
        /\ last_add' = [event |-> e, status |-> o.status]
        /\ now' = now
        /\ IF o.jobs # <<>>
           THEN /\ backlog' = Append(backlog, job)
                /\ spool_before' = spool
                /\ spool_after' = PersistLines(Append(backlog, job))
                /\ spool' = PersistLines(Append(backlog, job))
                /\ queue_rt' = put_nowait(queue_rt, job)
                /\ enq_started' = enq_started \cup {next_id}
                /\ enq_acked' = enq_acked \cup {next_id}
                /\ UNCHANGED persist_failed
                /\ next_id' = next_id + 1
           ELSE UNCHANGED <<backlog, spool_before, spool_after, spool,
                            queue_rt, enq_started, enq_acked, persist_failed, next_id>>
        /\ UNCHANGED <<up, io, worker, stored, crashes, done_called,
                       done_returned>>
        /\ obs' = [done |-> TRUE, event |-> e, clock |-> Clock[now],
                   added |-> o.added, raised |-> o.status = "error",
                   decision |-> o.decision, effects |-> o.effects,
                   rows_before |-> rows, backlog_before |-> backlog,
                   spool_before |-> spool, queue_before |-> queue_rt]

Observe(e) ==
    \E o \in {observe(rows, e, Clock[now])} : ObserveWith(e, o, o.rows)

NextObserve ==
    \/ \E e \in ObserveEvents : Observe(e)
    \/ Tick

\* C22 as stated: every memory request the Governor has put on the durable
\* queue carries a text that is canonical (whitespace collapsed, trimmed, at
\* most 500 characters) and not empty.
C22_EnqueuedTextCanonical ==
    \A i \in 1 .. Len(backlog) :
        LET text == backlog[i].payload.payload.text
        IN  IsCanonical(text) /\ text # <<>>

\* C11 as stated: after /observe has handled an observation whose salience
\* is below 0.2, the working store and the durable queue are as they were
\* before the request.
C11_IgnoreChangesNothing ==
    (obs.done /\ Salience(obs.event.text, obs.event.reason) < 800)
        => /\ rows = obs.rows_before
           /\ backlog = obs.backlog_before
           /\ spool = obs.spool_before

\* C12: an observation that /observe added to the working store has put
\* exactly one job on the durable queue if its salience is at least 0.4, after
\* the insert, and none otherwise; with 0.2 <= salience < 0.4 its row is in the
\* working store and the queue is as it was.
C12_EnqueueIffCandidate ==
    (obs.done /\ obs.added)
        => LET s == Salience(obs.event.text, obs.event.reason)
               enqueued == Len(backlog) - Len(obs.backlog_before)
           IN  /\ rows = obs.rows_before \cup {NewRow(obs.event, obs.clock)}
               /\ rows # obs.rows_before
               /\ IF s >= 1600
                  THEN /\ enqueued = 1
                       /\ SubSeq(backlog, 1, Len(obs.backlog_before))
                              = obs.backlog_before
                       /\ Len(queue_rt) = Len(obs.queue_before) + 1
                       /\ Len(spool) = Len(obs.spool_before) + 1
                       /\ obs.effects = <<"add_working", "enqueue_memory">>
                  ELSE /\ backlog = obs.backlog_before
                       /\ spool = obs.spool_before
                       /\ queue_rt = obs.queue_before
                       /\ obs.effects = <<"add_working">>

\* A working observation and a candidate observation have both been handled:
\* the table holds the row of the first and the row of the second, the queue
\* one job.
C12_Witness ==
    /\ obs.done
    /\ obs.added
    /\ Salience(obs.event.text, obs.event.reason) >= 1600
    /\ Len(backlog) = 1
    /\ \E r \in obs.rows_before : r.normalized_text = <<"n", "o", "t", "e">>

\* The observation is a duplicate of a stored one: same source and event_id,
\* or same user and normalized text within the window
IsDuplicate(rs, e, t) ==
    \/ e.event_id # None /\ ExistingEvent(rs, e)
    \/ ExistingNorm(rs, e, t)

\* C21: /observe answers a duplicate observation with the not-added signal
\* (decision kind ignore), and leaves the working store and the queue as they
\* were, whatever the salience of the text.
C21_DuplicateNotAdded ==
    (obs.done /\ IsDuplicate(obs.rows_before, obs.event, obs.clock))
        => /\ ~obs.raised
           /\ obs.decision = DedupedDecision
           /\ rows = obs.rows_before
           /\ backlog = obs.backlog_before
           /\ spool = obs.spool_before
           /\ queue_rt = obs.queue_before

(***************************************************************************)
(* Consolidation cursor (WorkingStore.mark_consolidated)                   *)
(***************************************************************************)
Scopes == {[kind |-> "room", id |-> "r1"], [kind |-> "user", id |-> "u1"],
           [kind |-> "global", id |-> "g"]}

\* _scope_key: f"{scope.kind}:{scope.id}"
_scope_key(scope) == <<scope.kind, ":", scope.id>>

ScopeKeys == {_scope_key(sc) : sc \in Scopes}

\* the up_to_ts values passed
CursorTimes == 1 .. 3

\* An optional integer: <<>> for no row (None), <<t>> for the value t
NoTs == <<>>

\* INSERT INTO consolidation_state(scope_key, last_ts) VALUES(?, ?)
\* ON CONFLICT(scope_key) DO UPDATE SET last_ts = excluded.last_ts
mark_consolidated(cur, scope, up_to_ts) ==
    [cur EXCEPT ![_scope_key(scope)] = <<up_to_ts>>]

\* SELECT last_ts FROM consolidation_state WHERE scope_key=?
consolidated_cursor(cur, scope) == cur[_scope_key(scope)]

MaxTs(old, t) == IF old = NoTs \/ old[1] < t THEN <<t>> ELSE old

InitCursor ==
    /\ cursor = [k \in ScopeKeys |-> NoTs]
    /\ max_passed = [k \in ScopeKeys |-> NoTs]

MarkConsolidated(scope, t) ==
    /\ UNCHANGED nonc
    /\ cursor' = mark_consolidated(cursor, scope, t)
    /\ max_passed' = [max_passed EXCEPT ![_scope_key(scope)] = MaxTs(@, t)]

NextCursor == \E scope \in Scopes, t \in CursorTimes : MarkConsolidated(scope, t)

\* C7: the stored cursor of a scope is the largest up_to_ts ever passed for
\* it: it never decreases, and calls for other scopes leave it alone.
C7_CursorIsMaximum ==
    \A sc \in Scopes :
        max_passed[_scope_key(sc)] # NoTs
            => consolidated_cursor(cursor, sc) = max_passed[_scope_key(sc)]

(***************************************************************************)
(* Storage adapter and its backends (brain.hippocampus.mem0_adapter)       *)
(***************************************************************************)
\* add_experience calls made in one behaviour
MaxMems == 2

\* Mem0Adapter.default_query_limit
DefaultQueryLimit == 5

\* Mem0Adapter.summary_max_length
SummaryMaxLength == 480

AdapterUsers == {"u1", "u2"}
AdapterTexts == {<<"a", " ", " ", "B">>, <<"b">>}
Queries == {<<"b">>, <<"a", " ", "b">>}
\* 0 stands for limit=None; "" for user_id=None
Limits == {0, 1}
ListUsers == {"", "u1"}
SummaryInputs == {<<>>, <<<<"a">>>>, <<<<"a">>, <<"b">>>>}
BackendKinds == {"memory", "sqlite"}

\* ExperienceCreate: text and metadata
Experiences ==
    {[text |-> <<"a", " ", " ", "B">>, metadata |-> <<>>],
     [text |-> <<"b">>,
      metadata |-> <<<<<<<<"m">>, <<"c", "\"", "\\", "d">>>>>>>>]}

Take(seq, n) == SubSeq(seq, 1, IF Len(seq) < n THEN Len(seq) ELSE n)

RECURSIVE Reverse(_)
Reverse(seq) ==
    IF seq = <<>> THEN <<>> ELSE Append(Reverse(Tail(seq)), Head(seq))

RECURSIVE Join(_, _)
Join(texts, sep) ==
    IF texts = <<>> THEN <<>>
    ELSE IF Len(texts) = 1 THEN Head(texts)
    ELSE Head(texts) \o sep \o Join(Tail(texts), sep)

\* What a client method returns, in one shape: the payloads (add, query,
\* list), the bool (delete) or the string (summarize); raised: no return.
Result(items, flag, text) ==
    [raised |-> FALSE, items |-> items, flag |-> flag, text |-> text]
Raised == [raised |-> TRUE, items |-> <<>>, flag |-> FALSE, text |-> <<>>]

Args(user, text, limit, id, texts, metadata) ==
    [user |-> user, text |-> text, limit |-> limit, id |-> id, texts |-> texts,
     metadata |-> metadata]

\* A metadata dict is the sequence of its <<key, value>> items, keys and
\* values strings; an Optional metadata is <<>> (None) or <<dict>>.
\* metadata or {}
MetadataOrEmpty(metadata) == IF metadata = <<>> THEN <<>> ELSE metadata[1]

Quote == "\""
Backslash == "\\"

\* json.dumps of a string: py_encode_basestring_ascii
RECURSIVE Escape(_)
Escape(str) ==
    IF str = <<>> THEN <<>>
    ELSE (IF Head(str) \in {Quote, Backslash}
          THEN <<Backslash, Head(str)>> ELSE <<Head(str)>>) \o Escape(Tail(str))

dumps_str(str) == <<Quote>> \o Escape(str) \o <<Quote>>

RECURSIVE DumpItems(_)
DumpItems(items) ==
    IF items = <<>> THEN <<>>
    ELSE dumps_str(Head(items)[1]) \o <<":", " ">> \o dumps_str(Head(items)[2])
             \o (IF Len(items) > 1 THEN <<",", " ">> ELSE <<>>)
             \o DumpItems(Tail(items))

\* json.dumps(payload["metadata"]): item separator ", ", key separator ": "
json_dumps(metadata) == <<"{">> \o DumpItems(metadata) \o <<"}">>

JsonError == [ok |-> FALSE, value |-> <<>>, next |-> 0]

\* json.decoder.scanstring from the character after the opening quote
RECURSIVE ScanString(_, _, _)
ScanString(str, j, acc) ==
    IF j > Len(str) THEN JsonError
    ELSE IF str[j] = Quote THEN [ok |-> TRUE, value |-> acc, next |-> j + 1]
    ELSE IF str[j] = Backslash
    THEN IF j + 1 <= Len(str) /\ str[j + 1] \in {Quote, Backslash}
         THEN ScanString(str, j + 2, Append(acc, str[j + 1]))
         ELSE JsonError
    ELSE ScanString(str, j + 1, Append(acc, str[j]))

RECURSIVE SkipSpaces(_, _)
SkipSpaces(str, j) ==
    IF j <= Len(str) /\ IsSpace(str[j]) THEN SkipSpaces(str, j + 1) ELSE j

OpenString(str, k) ==
    IF k <= Len(str) /\ str[k] = Quote THEN ScanString(str, k + 1, <<>>)
    ELSE JsonError

ParseString(str, j) == OpenString(str, SkipSpaces(str, j))

\* json.decoder.JSONObject: "key": "value" items separated by commas up to
\* the closing brace
RECURSIVE ParseItems(_, _, _)
CloseItem(str, acc, after) ==
    IF after > Len(str) THEN JsonError
    ELSE IF str[after] = "," THEN ParseItems(str, after + 1, acc)
    ELSE IF str[after] = "}"
    THEN [ok |-> TRUE, value |-> acc, next |-> after + 1]
    ELSE JsonError

ParseValue(str, key, val, acc) ==
    IF ~val.ok THEN JsonError
    ELSE CloseItem(str, Append(acc, <<key, val.value>>),
                   SkipSpaces(str, val.next))

ParseColon(str, key, colon, acc) ==
    IF colon > Len(str) \/ str[colon] # ":" THEN JsonError
    ELSE ParseValue(str, key, ParseString(str, colon + 1), acc)

ParseKey(str, key, acc) ==
    IF ~key.ok THEN JsonError
    ELSE ParseColon(str, key.value, SkipSpaces(str, key.next), acc)

ParseItems(str, j, acc) == ParseKey(str, ParseString(str, j), acc)

ParseObject(str, open) ==
    IF open > Len(str) \/ str[open] # "{" THEN JsonError
    ELSE IF SkipSpaces(str, open + 1) <= Len(str)
            /\ str[SkipSpaces(str, open + 1)] = "}"
    THEN [ok |-> TRUE, value |-> <<>>, next |-> SkipSpaces(str, open + 1) + 1]
    ELSE ParseItems(str, open + 1, <<>>)

WholeText(str, parsed) ==
    IF parsed.ok /\ SkipSpaces(str, parsed.next) = Len(str) + 1
    THEN parsed ELSE JsonError

\* json.loads of the text of an object whose values are strings
json_loads(str) == WholeText(str, ParseObject(str, SkipSpaces(str, 1)))

\* add_memory's payload: {"id", "user_id", "text", "metadata", "score": 1.0}
Payload(id, user, text, metadata) ==
    [id |-> id, user_id |-> user, text |-> text,
     metadata |-> MetadataOrEmpty(metadata)]

\* SQLiteMem0Client.add_memory: the row of the memories table
Row(payload) ==
    [id |-> payload.id, user_id |-> payload.user_id, text |-> payload.text,
     metadata |-> json_dumps(payload.metadata)]

\* _row_to_payload as a broken build would have it: the metadata is not read
_row_without_metadata(row) ==
    [id |-> row.id, user_id |-> row.user_id, text |-> row.text,
     metadata |-> <<>>]

\* _row_to_payload: json.loads(metadata_str), or {"raw": metadata_str} on
\* json.JSONDecodeError
LoadedMetadata(metadata_str, parsed) ==
    IF parsed.ok THEN parsed.value
    ELSE <<<<<<"r", "a", "w">>, metadata_str>>>>

\* SQLiteMem0Client._row_to_payload
_row_to_payload(row) ==
    [id |-> row.id, user_id |-> row.user_id, text |-> row.text,
     metadata |-> IF row.metadata # <<>>
                  THEN LoadedMetadata(row.metadata, json_loads(row.metadata))
                  ELSE <<>>]

RowsToPayloads(rs) == [i \in DOMAIN rs |-> _row_to_payload(rs[i])]

\* _truncate
_truncate(text, max_chars) ==
    IF Len(text) <= max_chars THEN text
    ELSE Prefix(text, IF max_chars - 3 > 0 THEN max_chars - 3 ELSE 0)
             \o <<".", ".", ".">>

\* The match as a broken build would have it: the user is not tested
TextMatchesAnyUser(m, user, query) == Contains(Lower(m.text), Lower(query))

\* InMemoryMem0Client.query_memories: query_lower in memo["text"].lower()
\* SQLiteMem0Client.query_memories: LOWER(text) LIKE '%' || query.lower() || '%'
\* (the texts of the model hold no LIKE wildcard and no non-ASCII letter)
TextMatches(m, user, query) ==
    m.user_id = user /\ Contains(Lower(m.text), Lower(query))

Matches(store, user, query) ==
    LET Test(m) == TextMatches(m, user, query) IN SelectSeq(store, Test)

\* list_memories: the memories of user_id, or all when user_id is falsy
Listed(store, user) ==
    LET Test(m) == user = "" \/ m.user_id = user IN SelectSeq(store, Test)

\* The delete as a broken build would have it: the other rows are removed
WithoutOthers(store, id) ==
    LET Test(m) == m.id = id IN SelectSeq(store, Test)

\* delete_memory: [memo for memo in self._storage if memo["id"] != memory_id];
\* DELETE FROM memories WHERE id = ?
Without(store, id) ==
    LET Test(m) == m.id # id IN SelectSeq(store, Test)

\* The memories of one user in a storage
OfUser(store, user) ==
    LET Test(m) == m.user_id = user IN SelectSeq(store, Test)

\* InMemoryMem0Client: a method's return value and the storage afterwards
InMemoryMem0Client(store, op, a, newid) ==
    CASE op = "add_memory" ->
           [value |-> Result(<<Payload(newid, a.user, a.text, a.metadata)>>,
                             FALSE, <<>>),
            store |-> Append(store,
                             Payload(newid, a.user, a.text, a.metadata))]
      [] op = "query_memories" ->
           [value |-> Result(Take(Matches(store, a.user, a.text), a.limit),
                             FALSE, <<>>),
            store |-> store]
      [] op = "list_memories" ->
           [value |-> Result(IF a.limit # 0
                             THEN Take(Listed(store, a.user), a.limit)
                             ELSE Listed(store, a.user), FALSE, <<>>),
            store |-> store]
      [] op = "delete_memory" ->
           [value |-> Result(<<>>, Len(Without(store, a.id)) < Len(store), <<>>),
            store |-> Without(store, a.id)]
      [] op = "summarize" ->
           [value |-> Result(<<>>, FALSE,
                             _truncate(Join(a.texts, <<" ">>), a.limit)),
            store |-> store]

\* SQLiteMem0Client: the same methods on the memories table, read with
\* ORDER BY rowid DESC
SQLiteMem0Client(store, op, a, newid) ==
    CASE op = "add_memory" ->
           [value |-> Result(<<Payload(newid, a.user, a.text, a.metadata)>>,
                             FALSE, <<>>),
            store |-> Append(store,
                             Row(Payload(newid, a.user, a.text, a.metadata)))]
      [] op = "query_memories" ->
           [value |-> Result(RowsToPayloads(
                                 Take(Reverse(Matches(store, a.user, a.text)),
                                      a.limit)), FALSE, <<>>),
            store |-> store]
      [] op = "list_memories" ->
           [value |-> Result(RowsToPayloads(
                                 IF a.limit # 0
                                 THEN Take(Reverse(Listed(store, a.user)), a.limit)
                                 ELSE Reverse(Listed(store, a.user))),
                             FALSE, <<>>),
            store |-> store]
      [] op = "delete_memory" ->
           [value |-> Result(<<>>, Len(Without(store, a.id)) < Len(store), <<>>),
            store |-> Without(store, a.id)]
      [] op = "summarize" ->
           [value |-> Result(<<>>, FALSE,
                             _truncate(Join(a.texts, <<" ">>), a.limit)),
            store |-> store]

\* The dispatcher as a broken build would have it: the primary's exception
\* is re-raised instead of calling the fallback.
_invoke_without_fallback(primary_callable, fallback_callable, prim, fb) ==
    IF ~primary_callable
    THEN IF fallback_callable
         THEN [by |-> "fallback", value |-> fb.value]
         ELSE [by |-> "raise", value |-> Raised]
    ELSE IF ~prim.value.raised
    THEN [by |-> "primary", value |-> prim.value]
    ELSE [by |-> "raise", value |-> Raised]

\* _invoke_with_fallback as a broken build would have it: the fallback is
\* asked first
_invoke_fallback_first(primary_callable, fallback_callable, prim, fb) ==
    IF fallback_callable
    THEN [by |-> "fallback", value |-> fb.value]
    ELSE [by |-> "primary", value |-> prim.value]

\* Mem0Adapter._invoke_with_fallback: who serves the call, and its result
_invoke_with_fallback(primary_callable, fallback_callable, prim, fb) ==
    IF ~primary_callable
    THEN IF fallback_callable
         THEN [by |-> "fallback", value |-> fb.value]
         ELSE [by |-> "raise", value |-> Raised]
    ELSE IF ~prim.value.raised
    THEN [by |-> "primary", value |-> prim.value]
    ELSE IF fallback_callable
    THEN [by |-> "fallback", value |-> fb.value]
    ELSE [by |-> "raise", value |-> Raised]

\* Mem0Adapter._to_record: a client payload as a MemoryRecord
_to_record(raw) ==
    [id |-> raw.id, user_id |-> raw.user_id, text |-> raw.text,
     metadata |-> raw.metadata]

ToRecords(value) ==
    [value EXCEPT !.items = [i \in DOMAIN value.items |-> _to_record(value.items[i])]]

\* The client method of Mem0Adapter.client.  With backend "memory" the client
\* is the fallback_client itself; a failing SQLite call rolls back.
PrimaryCall(prim, fb_store, op, a, newid, fails) ==
    IF prim.kind = "memory" THEN InMemoryMem0Client(fb_store, op, a, newid)
    ELSE IF fails THEN [value |-> Raised, store |-> prim.rows]
    ELSE SQLiteMem0Client(prim.rows, op, a, newid)

\* One adapter call through _invoke_with_fallback: the result handed to the
\* caller and both storages afterwards.
Invoke(prim, fb_store, op, a, newid, fails) ==
    LET p == PrimaryCall(prim, fb_store, op, a, newid, fails)
        f == InMemoryMem0Client(fb_store, op, a, newid)
        inv == _invoke_with_fallback(TRUE, TRUE, p, f)
    IN  [value |-> ToRecords(inv.value),
         primary |-> IF inv.by = "primary" /\ prim.kind # "memory"
                     THEN [prim EXCEPT !.rows = p.store] ELSE prim,
         fallback |-> IF inv.by = "fallback" THEN f.store
                      ELSE IF inv.by = "primary" /\ prim.kind = "memory"
                      THEN p.store ELSE fb_store]

NoCall ==
    [op |-> "none", args |-> Args("", <<>>, 0, 0, <<>>, <<>>), raised |-> FALSE,
     result |-> Result(<<>>, FALSE, <<>>), fb_before |-> <<>>,
     rows_before |-> <<>>, newid |-> 0]

InitAdapter ==
    /\ primary \in {[kind |-> k, rows |-> <<>>] : k \in BackendKinds}
    /\ fallback = <<>>
    /\ next_mem = 1
    /\ last_call = NoCall
    /\ deleted = {}
    /\ added = {}

Call(op, a, fails) ==
    \E out \in {Invoke(primary, fallback, op, a, next_mem, fails)} :
    /\ fails => primary.kind # "memory"
    /\ primary' = out.primary
    /\ fallback' = out.fallback
    /\ last_call' = [op |-> op, args |-> a, raised |-> fails,
                     result |-> out.value, fb_before |-> fallback,
                     rows_before |-> primary.rows, newid |-> next_mem]
    /\ deleted' = IF op = "delete_memory" /\ out.value.flag
                  THEN deleted \cup {a.id} ELSE deleted
    /\ added' = IF op = "add_memory" /\ primary.kind = "sqlite" /\ ~fails
                THEN added \cup {out.value.items[1]} ELSE added

\* Mem0Adapter.add_experience
AddExperience(user, experience, fails) ==
    /\ UNCHANGED nona
    /\ next_mem <= MaxMems
    /\ Call("add_memory",
            Args(user, experience.text, 0, 0, <<>>, experience.metadata), fails)
    /\ next_mem' = next_mem + 1

\* Mem0Adapter.query_memories: limit or self.default_query_limit
QueryMemories(user, query, limit, fails) ==
    /\ UNCHANGED nona
    /\ Call("query_memories",
            Args(user, query, IF limit # 0 THEN limit ELSE DefaultQueryLimit,
                 0, <<>>, <<>>), fails)
    /\ UNCHANGED next_mem

\* Mem0Adapter.list_memories
ListMemories(user, limit, fails) ==
    /\ UNCHANGED nona
    /\ Call("list_memories", Args(user, <<>>, limit, 0, <<>>, <<>>), fails)
    /\ UNCHANGED next_mem

\* Mem0Adapter.delete_memory
DeleteMemory(id, fails) ==
    /\ UNCHANGED nona
    /\ Call("delete_memory", Args("", <<>>, 0, id, <<>>, <<>>), fails)
    /\ UNCHANGED next_mem

\* Mem0Adapter.summarize_texts: no backend call for an empty list
SummarizeTexts(texts, fails) ==
    /\ UNCHANGED nona
    /\ IF texts = <<>>
       THEN /\ ~fails
            /\ last_call' = [NoCall EXCEPT !.op = "summarize"]
            /\ UNCHANGED <<primary, fallback, deleted, added>>
       ELSE Call("summarize", Args("", <<>>, SummaryMaxLength, 0, texts, <<>>), fails)
    /\ UNCHANGED next_mem

\* What a new client of the same backend starts with: SQLiteMem0Client
\* connects to the file and finds its memories table; the storage of a new
\* InMemoryMem0Client is an empty list.
reopen(prim) == IF prim.kind = "sqlite" THEN prim ELSE [prim EXCEPT !.rows = <<>>]

\* client.close(), then a new client on the same db_path and a new
\* Mem0Adapter (with a new fallback_client) around it
Reopen ==
    /\ UNCHANGED nona
    /\ primary' = reopen(primary)
    /\ fallback' = <<>>
    /\ last_call' = [NoCall EXCEPT !.op = "reopen", !.fb_before = fallback,
                                   !.rows_before = primary.rows]
    /\ UNCHANGED <<next_mem, deleted, added>>

NextAdapter ==
    \/ \E u \in AdapterUsers, e \in Experiences, f \in BOOLEAN :
           AddExperience(u, e, f)
    \/ \E u \in AdapterUsers, q \in Queries, l \in Limits, f \in BOOLEAN :
           QueryMemories(u, q, l, f)
    \/ \E u \in ListUsers, l \in Limits, f \in BOOLEAN : ListMemories(u, l, f)
    \/ \E i \in 1 .. MaxMems, f \in BOOLEAN : DeleteMemory(i, f)
    \/ \E ts \in SummaryInputs, f \in BOOLEAN : SummarizeTexts(ts, f)
    \/ Reopen

\* C8: when the primary backend raises, the caller gets what the in-memory
\* fallback returns for the same arguments (never the exception), and the
\* fallback storage holds the effect of the call.
C8_FallbackServes ==
    last_call.raised =>
        LET f == InMemoryMem0Client(last_call.fb_before, last_call.op,
                                    last_call.args, last_call.newid)
        IN  /\ ~last_call.result.raised
            /\ last_call.result = ToRecords(f.value)
            /\ fallback = f.store

\* A query whose primary raised is answered from a memory that an earlier
\* failed add left in the fallback.
C8_Witness ==
    /\ last_call.raised
    /\ last_call.op = "query_memories"
    /\ last_call.result.items # <<>>
    /\ primary.rows = <<>>

\* The last call reached the primary client, which returned
PrimaryReturned ==
    /\ last_call.op \in {"add_memory", "query_memories", "list_memories",
                         "delete_memory", "summarize"}
    /\ ~last_call.raised
    /\ ~(last_call.op = "summarize" /\ last_call.args.texts = <<>>)

\* What the primary client returns for the last call
PrimaryResult ==
    PrimaryCall([kind |-> primary.kind, rows |-> last_call.rows_before],
                last_call.fb_before, last_call.op, last_call.args,
                last_call.newid, FALSE).value

\* C24 as stated: when the primary client has returned without raising, the
\* adapter has returned the primary's result and the fallback storage is as
\* it was before the call (add, query, list, delete, summarize).
C24_AsStated ==
    PrimaryReturned
        => /\ last_call.result = ToRecords(PrimaryResult)
           /\ fallback = last_call.fb_before

\* C24, amended: the same for an adapter whose primary client is not the
\* in-memory fallback client itself.
C24_FallbackUntouched ==
    (PrimaryReturned /\ primary.kind # "memory")
        => /\ last_call.result = ToRecords(PrimaryResult)
           /\ fallback = last_call.fb_before

\* the SQLite primary has deleted one of its records while the fallback
\* held another
C24_Witness ==
    /\ PrimaryReturned
    /\ primary.kind = "sqlite"
    /\ last_call.op = "delete_memory"
    /\ last_call.result.flag
    /\ fallback # <<>>
    /\ Len(primary.rows) < Len(last_call.rows_before)

LowerSubstrings(text) ==
    {Lower(SubSeq(text, i, j)) : i \in 1 .. Len(text), j \in 1 .. Len(text)}
        \ {<<>>}

\* C9: after an add served by the in-memory or SQLite backend, a query for
\* any lowercased substring of the canonical text returns the new record.
C9_RoundTrip ==
    (last_call.op = "add_memory" /\ ~last_call.raised) =>
        \A t \in LowerSubstrings(canonicalize_memory(last_call.args.text)) :
            LET q == Invoke(primary, fallback, "query_memories",
                            Args(last_call.args.user, t, DefaultQueryLimit,
                                 0, <<>>, <<>>), next_mem, FALSE)
            IN  \E i \in DOMAIN q.value.items :
                    q.value.items[i].id = last_call.result.items[1].id

\* query_memories(user, query) through the adapter, on given storages,
\* with the primary answering (fails = FALSE) or raising (fails = TRUE)
QueryOn(prim, fb_store, user, query, limit, fails) ==
    Invoke(prim, fb_store, "query_memories",
           Args(user, query, limit, 0, <<>>, <<>>), 0, fails).value.items

\* The ways the primary can behave: the in-memory client never raises
Failures(prim) == IF prim.kind = "memory" THEN {FALSE} ELSE BOOLEAN

IdsIn(items) == {items[i].id : i \in DOMAIN items}

\* A stored record is queryable: a query of its user for its own text
\* returns it
Queryable(prim, fb_store, m) ==
    \E f \in Failures(prim) :
        m.id \in IdsIn(QueryOn(prim, fb_store, m.user_id, Lower(m.text),
                               DefaultQueryLimit, f))

\* C14: an id for which delete_memory returned true is in the result of no
\* later query, whichever backend answers; and every record stored before a
\* delete_memory call, other than the one deleted, is still returned by a
\* query for it afterwards.
C14_DeletedStaysGone ==
    /\ \A i \in deleted, u \in AdapterUsers, q \in Queries \cup {<<>>},
          f \in Failures(primary) :
           i \notin IdsIn(QueryOn(primary, fallback, u, q, DefaultQueryLimit, f))
    /\ last_call.op = "delete_memory" =>
           \A m \in Range(last_call.rows_before) \cup Range(last_call.fb_before) :
               m.id # last_call.args.id => Queryable(primary, fallback, m)

\* delete_memory has returned true on the SQLite backend while another
\* record was stored.
C14_Witness ==
    /\ last_call.op = "delete_memory"
    /\ last_call.result.flag
    /\ primary.kind = "sqlite"
    /\ ~last_call.raised
    /\ Len(last_call.rows_before) = 2

\* C15: after the SQLite backend was closed and a new client and adapter
\* opened on the same file, listing and querying return exactly the records
\* that add_memory returned from that backend and delete_memory did not
\* delete, with the ids and the metadata add_memory returned.
C15_SqlitePersists ==
    (last_call.op = "reopen" /\ primary.kind = "sqlite") =>
        LET live == {m \in added : m.id \notin deleted}
            listed == Invoke(primary, fallback, "list_memories",
                             Args("", <<>>, 0, 0, <<>>, <<>>), 0, FALSE).value.items
        IN  /\ Range(listed) = live
            /\ Len(listed) = Cardinality(live)
            /\ \A u \in AdapterUsers :
                   Range(QueryOn(primary, fallback, u, <<>>,
                                 DefaultQueryLimit, FALSE))
                       = {m \in live : m.user_id = u}

\* The SQLite backend is reopened holding a record with metadata, after
\* another record was deleted from it.
C15_Witness ==
    /\ last_call.op = "reopen"
    /\ primary.kind = "sqlite"
    /\ \E m \in added : m.id \in deleted
    /\ \E m \in added : m.id \notin deleted /\ m.metadata # <<>>

\* C16: a query of user u returns only records of u, and returns what it
\* would return if the storages held the records of u alone, whether the
\* primary or the fallback answers.
C16_UserPartition ==
    \A u \in AdapterUsers, q \in Queries, l \in {1, DefaultQueryLimit},
       f \in Failures(primary) :
        LET items == QueryOn(primary, fallback, u, q, l, f)
        IN  /\ \A i \in DOMAIN items : items[i].user_id = u
            /\ items = QueryOn([primary EXCEPT !.rows = OfUser(primary.rows, u)],
                               OfUser(fallback, u), u, q, l, f)

\* A query has returned a record of its user while the storage that answered
\* held a record of another user with a text matching the query.
C16_Witness ==
    /\ last_call.op = "query_memories"
    /\ last_call.result.items # <<>>
    /\ \E m \in Range(IF last_call.raised \/ primary.kind = "memory"
                      THEN fallback ELSE primary.rows) :
           /\ m.user_id # last_call.args.user
           /\ Contains(Lower(m.text), Lower(last_call.args.text))

\* The records add_experience has returned and delete_memory has not
\* deleted, while the adapter lives: those of the primary and of the
\* fallback storage
Kept == Range(primary.rows) \cup Range(fallback)

\* C40: a record add_experience returned is returned by every later
\* query_memories of its user for its text until it is deleted, whether the
\* primary answers the query or raises, and whichever of primary and
\* fallback served the add.
C40_StaysRetrievable ==
    \A m \in Kept, f \in Failures(primary) :
        m.id \in IdsIn(QueryOn(primary, fallback, m.user_id, Lower(m.text),
                               DefaultQueryLimit, f))

(***************************************************************************)
(* Reflection selector (brain.hippocampus.reflection)                      *)
(***************************************************************************)
\* candidate memories handed to one reflection_pass call
MaxMemories == 2

\* reflection_pass: len(words) > 25
SnippetWords == 25

LOGISTICS_KEYWORDS ==
    {<<"t", "o", "k", "e", "n">>,
     <<"s", "e", "c", "r", "e", "t">>,
     <<"p", "a", "s", "s", "w", "o", "r", "d">>,
     <<"a", "p", "i", " ", "k", "e", "y">>,
     <<"i", "p">>,
     <<"p", "o", "r", "t">>,
     <<"l", "o", "c", "a", "l", "h", "o", "s", "t">>,
     <<"1", "2", "7", ".">>,
     <<"h", "o", "s", "t", ".", "d", "o", "c", "k", "e", "r", ".", "i",
     "n", "t", "e", "r", "n", "a", "l">>}

\* SOFT_PREFIXES[0], SOFT_PHRASES[0]
SoftPrefix == <<"S", "a", "m", ":">>
SoftPhrase == <<"T", "h", "i", "s", " ", "c", "o", "n", "n", "e", "c", "t",
              "s", " ", "t", "o">>

\* the one character U+2026 appended to a cut snippet
Ellipsis == "U+2026"

\* the longest prefix of t made of characters with (or without) property word
RECURSIVE Run(_, _)
Run(t, word) ==
    IF t = <<>> \/ IsWordChar(Head(t)) # word THEN <<>>
    ELSE <<Head(t)>> \o Run(Tail(t), word)

\* re.findall(r"\w+", t)
RECURSIVE FindWords(_)
FindWords(t) ==
    IF t = <<>> THEN <<>>
    ELSE LET r == Run(t, IsWordChar(Head(t)))
             rest == SubSeq(t, Len(r) + 1, Len(t))
         IN  IF IsWordChar(Head(t)) THEN <<r>> \o FindWords(rest)
             ELSE FindWords(rest)

\* _tokenize
_tokenize(text) == FindWords(Lower(text))

\* _overlap_score as a broken build would have it: len(ta | tb) / len(tb)
_overlap_union(a, b) ==
    LET ta == Range(_tokenize(a))
        tb == Range(_tokenize(b))
    IN  IF ta = {} \/ tb = {} THEN [num |-> 0, den |-> 1]
        ELSE [num |-> Cardinality(ta \cup tb), den |-> Cardinality(tb)]

\* _overlap_score, as the fraction num/den
_overlap_score(a, b) ==
    LET ta == Range(_tokenize(a))
        tb == Range(_tokenize(b))
    IN  IF ta = {} \/ tb = {} THEN [num |-> 0, den |-> 1]
        ELSE [num |-> Cardinality(ta \cap tb), den |-> Cardinality(tb)]

\* x < y for fractions with positive denominators
Less(x, y) == x.num * y.den < y.num * x.den

\* str.split(): the maximal runs of non-space characters
RECURSIVE Split(_)
Split(t) ==
    IF t = <<>> THEN <<>>
    ELSE IF IsSpace(Head(t)) THEN Split(Tail(t))
    ELSE LET n == CHOOSE k \in 1 .. Len(t) :
                      /\ \A i \in 1 .. k : ~IsSpace(t[i])
                      /\ k = Len(t) \/ IsSpace(t[k + 1])
         IN  <<SubSeq(t, 1, n)>> \o Split(SubSeq(t, n + 1, Len(t)))

\* str.rstrip(",.;")
RECURSIVE RStripChars(_, _)
RStripChars(t, chars) ==
    IF t # <<>> /\ t[Len(t)] \in chars
    THEN RStripChars(SubSeq(t, 1, Len(t) - 1), chars) ELSE t

\* a memory as the adapter hands it over: text (or memory) and the metadata
\* keys kind, sticky, sensitive; <<>> is the empty or missing string
Memory(text, memory, kind, sticky, sensitive) ==
    [text |-> text, memory |-> memory, kind |-> kind, sticky |-> sticky,
     sensitive |-> sensitive]

\* mem.get("text") or mem.get("memory") or ""
TextOf(mem) == IF mem.text # <<>> THEN mem.text ELSE mem.memory

HasLogistics(text) == \E k \in LOGISTICS_KEYWORDS : Contains(Lower(text), k)

\* f"{user_message} {assistant_reply}".strip()
Combined(user_message, assistant_reply) ==
    Strip(user_message \o <<" ">> \o assistant_reply)

\* The test as a broken build would have it: the kind is not looked at
EligibleAnyKind(mem, combined) ==
    /\ TextOf(mem) # <<>>
    /\ ~(mem.sensitive /\ _overlap_score(TextOf(mem), combined).num = 0)
    /\ ~(HasLogistics(TextOf(mem)) /\ ~HasLogistics(combined))

\* the test of the loop body of reflection_pass: mem is appended to eligible
Eligible(mem, combined) ==
    /\ Lower(mem.kind) \in {<<"t", "h", "r", "e", "a", "d">>,
                            <<"p", "r", "e", "f", "e", "r", "e", "n", "c",
                            "e">>}
         \/ mem.sticky
    /\ TextOf(mem) # <<>>
    /\ ~(mem.sensitive /\ _overlap_score(TextOf(mem), combined).num = 0)
    /\ ~(HasLogistics(TextOf(mem)) /\ ~HasLogistics(combined))

\* The choice as a broken build would have it: sorted without reverse=True
Worst(eligible, combined) ==
    LET score(i) == _overlap_score(TextOf(eligible[i]), combined)
        b == CHOOSE i \in DOMAIN eligible :
                 /\ \A j \in DOMAIN eligible : ~Less(score(j), score(i))
                 /\ \A j \in 1 .. i - 1 : Less(score(i), score(j))
    IN  [score |-> score(b), mem |-> eligible[b]]

\* scored.sort(key=..., reverse=True)[0]: the first of the best-scored
Best(eligible, combined) ==
    LET score(i) == _overlap_score(TextOf(eligible[i]), combined)
        b == CHOOSE i \in DOMAIN eligible :
                 /\ \A j \in DOMAIN eligible : ~Less(score(i), score(j))
                 /\ \A j \in 1 .. i - 1 : Less(score(j), score(i))
    IN  [score |-> score(b), mem |-> eligible[b]]

Snippet(text) ==
    LET words == Split(Strip(text))
    IN  IF Len(words) > SnippetWords
        THEN RStripChars(Join(SubSeq(words, 1, SnippetWords), <<" ">>),
                         {",", ".", ";"}) \o <<Ellipsis>>
        ELSE Strip(text)

\* f"{prefix} {phrase} {snippet}" for the chosen memory
LineOf(mem) ==
    SoftPrefix \o <<" ">> \o SoftPhrase \o <<" ">> \o Snippet(TextOf(mem))

\* reflection_pass, given the memories the adapter returned
reflection_pass(memories, user_message, assistant_reply) ==
    LET combined == Combined(user_message, assistant_reply)
        Test(mem) == Eligible(mem, combined)
        eligible == SelectSeq(memories, Test)
    IN  IF eligible = <<>> THEN <<>>
        ELSE LET best == Best(eligible, combined)
             IN  IF Less(best.score, [num |-> 5, den |-> 100]) THEN <<>>
                 ELSE LineOf(best.mem)

MemorySamples ==
    {Memory(<<"p", "o", "r", "t", " ", "p", "a", "s", "s", "w", "o", "r",
            "d">>,
            <<>>, <<"t", "h", "r", "e", "a", "d">>, FALSE, FALSE),
     Memory(<<"c", "o", "m", "p", "o", "s", "e">>,
            <<>>, <<"T", "h", "r", "e", "a", "d">>, FALSE, FALSE),
     Memory(<<"t", "o", "k", "e", "n", " ", "x">>,
            <<>>, <<"f", "a", "c", "t">>, TRUE, FALSE),
     Memory(<<>>,
            <<"c", "o", "m", "p", "o", "s", "e", " ", "i", "p">>, <<"p", "r", "e", "f", "e", "r", "e", "n", "c", "e">>, FALSE, FALSE),
     Memory(<<"s", "e", "c", "r", "e", "t", " ", "c", "o", "m", "p", "o",
            "s", "e">>,
            <<>>, <<"t", "h", "r", "e", "a", "d">>, FALSE, TRUE),
     Memory(<<"g", "a", "r", "d", "e", "n", "i", "n", "g">>,
            <<>>, <<"t", "h", "r", "e", "a", "d">>, FALSE, FALSE),
     Memory(<<"c", "o", "m", "p", "o", "s", "e", " ", "a", " ", "a", " ",
            "a", " ", "a", " ", "a", " ", "a", " ", "a", " ", "a", " ",
            "a", " ", "a", " ", "a", " ", "a", " ", "a", " ", "a", " ",
            "a", " ", "a", " ", "a", " ", "a", " ", "a", " ", "a", " ",
            "a", " ", "a", " ", "a", " ", "p", "o", "r", "t", ",", " ",
            "x">>,
            <<>>, <<"t", "h", "r", "e", "a", "d">>, FALSE, FALSE),
     Memory(<<"t", "e", "l", "l">>,
            <<>>, <<"f", "a", "c", "t">>, FALSE, FALSE),
     Memory(<<"m", "e", " ", "d", "i", "a", "r", "y">>,
            <<>>, <<"f", "a", "c", "t">>, TRUE, TRUE),
     Memory(<<"a">>,
            <<>>, <<"t", "h", "r", "e", "a", "d">>, FALSE, FALSE)}

\* a message of twenty tokens
TwentyTokens ==
    <<"a", " ", "b", " ", "c", " ", "d", " ", "e", " ", "f", " ", "g", " ",
      "h", " ", "i", " ", "j", " ", "k", " ", "l", " ", "m", " ", "n", " ",
      "o", " ", "p", " ", "q", " ", "r", " ", "s", " ", "t">>

UserMessages ==
    {<<"p", "o", "r", "t">>, <<"c", "o", "m", "p", "o", "s", "e">>,
     <<"T", "e", "l", "l", " ", "m", "e">>, TwentyTokens}
AssistantReplies == {<<"o", "k">>, <<>>}

RECURSIVE SeqsUpTo(_, _)
SeqsUpTo(S, n) ==
    IF n = 0 THEN {<<>>}
    ELSE LET shorter == SeqsUpTo(S, n - 1)
         IN  shorter \cup {Append(q, x) : q \in shorter, x \in S}

NoLine == [done |-> FALSE, line |-> <<>>]

InitReflect ==
    /\ r_in \in [memories : SeqsUpTo(MemorySamples, MaxMemories),
                 user_message : UserMessages,
                 assistant_reply : AssistantReplies]
    /\ r_out = NoLine

ReflectionPass ==
    /\ UNCHANGED nonr
    /\ ~r_out.done
    /\ r_out' = [done |-> TRUE,
                 line |-> reflection_pass(r_in.memories, r_in.user_message,
                                          r_in.assistant_reply)]
    /\ UNCHANGED r_in

NextReflect == ReflectionPass

\* C10: a returned reflection line holds no logistics keyword that the
\* current conversation (user message and assistant reply) does not hold.
C10_NoLogisticsLeak ==
    (r_out.done /\ r_out.line # <<>>) =>
        \A k \in LOGISTICS_KEYWORDS :
            Contains(Lower(r_out.line), k) =>
                Contains(Lower(Combined(r_in.user_message,
                                        r_in.assistant_reply)), k)

\* The memories of the call whose line is the returned line
DrawnFrom(line) ==
    {i \in DOMAIN r_in.memories : LineOf(r_in.memories[i]) = line}

KindAllowed(mem) ==
    \/ Lower(mem.kind) \in {<<"t", "h", "r", "e", "a", "d">>,
                            <<"p", "r", "e", "f", "e", "r", "e", "n", "c", "e">>}
    \/ mem.sticky

\* the tokens a text shares with the conversation of the call
SharedTokens(text) ==
    Range(_tokenize(text))
        \cap Range(_tokenize(Combined(r_in.user_message, r_in.assistant_reply)))

\* C18: a returned line is the line of a candidate whose kind is thread or
\* preference or that is sticky; with no such candidate nothing is returned.
C18_KindOrSticky ==
    r_out.done =>
        /\ r_out.line # <<>> =>
               \E i \in DrawnFrom(r_out.line) : KindAllowed(r_in.memories[i])
        /\ (\A i \in DOMAIN r_in.memories : ~KindAllowed(r_in.memories[i]))
               => r_out.line = <<>>

\* The first candidate is of another kind, not sticky, and shares a token
\* with the conversation; the line returned is that of the second candidate,
\* a sticky one.
C18_Witness ==
    /\ r_out.done
    /\ r_out.line # <<>>
    /\ Len(r_in.memories) = 2
    /\ ~KindAllowed(r_in.memories[1])
    /\ SharedTokens(TextOf(r_in.memories[1])) # {}
    /\ r_in.memories[2].sticky
    /\ DrawnFrom(r_out.line) = {2}

\* C19: a returned line is the line of a candidate that is not marked
\* sensitive or whose text shares a token with the conversation.
C19_SensitiveNeedsOverlap ==
    (r_out.done /\ r_out.line # <<>>) =>
        \E i \in DrawnFrom(r_out.line) :
            r_in.memories[i].sensitive =>
                SharedTokens(TextOf(r_in.memories[i])) # {}

\* The line of a sensitive candidate that shares a token with the
\* conversation is returned.
C19_Witness ==
    /\ r_out.done
    /\ r_out.line # <<>>
    /\ \A i \in DrawnFrom(r_out.line) :
           /\ r_in.memories[i].sensitive
           /\ SharedTokens(TextOf(r_in.memories[i])) # {}

\* |tokens(text) & tokens(conversation)| / |tokens(conversation)|
ShareOf(mem) ==
    [num |-> Cardinality(SharedTokens(TextOf(mem))),
     den |-> Cardinality(Range(_tokenize(Combined(r_in.user_message,
                                                  r_in.assistant_reply))))]

EligibleNow(i) ==
    Eligible(r_in.memories[i],
             Combined(r_in.user_message, r_in.assistant_reply))

\* C20: a line is returned exactly when some eligible candidate scores at
\* least 0.05; it is then the line of an eligible candidate that no eligible
\* candidate outscores, and that shares a token with the conversation.
C20_BestAboveThreshold ==
    r_out.done =>
        LET elig == {i \in DOMAIN r_in.memories : EligibleNow(i)}
            atleast(i) == ~Less(ShareOf(r_in.memories[i]), [num |-> 5, den |-> 100])
        IN  /\ r_out.line # <<>> <=> \E i \in elig : atleast(i)
            /\ r_out.line # <<>> =>
                   \E i \in DrawnFrom(r_out.line) \cap elig :
                       /\ atleast(i)
                       /\ SharedTokens(TextOf(r_in.memories[i])) # {}
                       /\ \A j \in elig :
                              ~Less(ShareOf(r_in.memories[i]),
                                    ShareOf(r_in.memories[j]))

\* Of two eligible candidates the second scores higher and its line is
\* returned.
C20_Witness ==
    /\ r_out.done
    /\ Len(r_in.memories) = 2
    /\ EligibleNow(1)
    /\ EligibleNow(2)
    /\ Less(ShareOf(r_in.memories[1]), ShareOf(r_in.memories[2]))
    /\ DrawnFrom(r_out.line) = {2}

(***************************************************************************)
(* /consolidate (memory_governor.app.consolidate, consolidate_events)      *)
(***************************************************************************)
\* The texts of the working events of a scope: episodic only; semantic
\* ("like"); procedural ("run"); semantic and procedural
ConsolidateTexts ==
    {<<"g", "o">>,
     <<"i", " ", " ", "l", "i", "k", "e">>,
     <<"r", "u", "n">>,
     <<"n", "e", "v", "e", "r", " ", "r", "e", "s", "t", "a", "r", "t">>}

MaxEvents == 3

\* The working_events rows of one scope as recent_for_scope returns them,
\* newest first (ORDER BY ts DESC): row i of n has ts n - i + 1.
EventRows(texts) ==
    [i \in 1 .. Len(texts) |->
        [source |-> "s1", user_id |-> "u1", text |-> texts[i],
         timestamp |-> Len(texts) - i + 1, event_id |-> None]]

ConsolidateTables == {EventRows(t) : t \in SeqsUpTo(ConsolidateTexts, MaxEvents)}

\* ConsolidateRequest: mode, and max_items: int = 20 with no validator
Modes == {"all", "episodic", "semantic", "procedural"}
MaxItemsValues == {-1, 0, 1, 2}

ConsolidateScope == [kind |-> "room", id |-> "r1"]

\* recent_for_scope: ORDER BY ts DESC LIMIT ?; SQLite reads a negative LIMIT
\* as no limit
recent_for_scope(table, limit) ==
    IF limit < 0 THEN table ELSE Take(table, limit)

SemanticTokens ==
    {<<"p", "r", "e", "f", "e", "r">>, <<"a", "l", "w", "a", "y", "s">>,
     <<"n", "e", "v", "e", "r">>, <<"l", "i", "k", "e">>,
     <<"p", "l", "e", "a", "s", "e", " ", "r", "e", "m", "e", "m", "b", "e", "r">>,
     <<"c", "o", "m", "p", "o", "s", "e">>, <<"p", "l", "u", "g", "i", "n">>}

StrongTokens ==
    {<<"p", "r", "e", "f", "e", "r">>, <<"a", "l", "w", "a", "y", "s">>,
     <<"n", "e", "v", "e", "r">>}

ProceduralPrefixes ==
    {<<"r", "u", "n">>, <<"u", "s", "e">>, <<"s", "t", "a", "r", "t">>,
     <<"s", "t", "o", "p">>, <<"r", "u", "n", "b", "o", "o", "k">>,
     <<"t", "a", "s", "k">>, <<"t", "o", "d", "o">>}

Runbook == <<"r", "u", "n", "b", "o", "o", "k">>
RestartWord == <<"r", "e", "s", "t", "a", "r", "t">>

\* any(tok in lower for tok in [...])
IsSemantic(lower) == \E tok \in SemanticTokens : Contains(lower, tok)

\* any(lower.startswith(tok) ...) or "runbook" in lower or "restart" in lower
IsProcedural(lower) ==
    \/ \E tok \in ProceduralPrefixes : StartsWith(lower, tok)
    \/ Contains(lower, Runbook)
    \/ Contains(lower, RestartWord)

\* consolidate_events: provenance = {"source", "event_id", "scope_id",
\* "scope_kind", "timestamp"}; the scope is that of the request
Provenance(evt) ==
    [source |-> evt.source, event_id |-> evt.event_id,
     timestamp |-> evt.timestamp]

\* The items consolidate_events appends for one event; confidence in
\* hundredths
EpisodicOf(evt, mode) ==
    IF mode \in {"all", "episodic"}
    THEN <<[text |-> evt.text, kind |-> "episodic", confidence |-> 50,
            provenance |-> Provenance(evt)]>>
    ELSE <<>>

SemanticOf(evt, mode) ==
    IF mode \in {"all", "semantic"} /\ IsSemantic(Lower(evt.text))
    THEN <<[text |-> canonicalize_memory(evt.text), kind |-> "semantic",
            confidence |->
                IF \E tok \in StrongTokens : Contains(Lower(evt.text), tok)
                THEN 70 ELSE 60,
            provenance |-> Provenance(evt)]>>
    ELSE <<>>

ProceduralOf(evt, mode) ==
    IF mode \in {"all", "procedural"} /\ IsProcedural(Lower(evt.text))
    THEN <<[text |-> canonicalize_memory(evt.text), kind |-> "procedural",
            confidence |->
                IF Contains(Lower(evt.text), Runbook) THEN 65 ELSE 55,
            provenance |-> Provenance(evt)]>>
    ELSE <<>>

\* consolidate_events: the three lists, each in the order of the events
RECURSIVE consolidate_events(_, _)
consolidate_events(events, mode) ==
    IF events = <<>>
    THEN [episodic |-> <<>>, semantic |-> <<>>, procedural |-> <<>>]
    ELSE LET rest == consolidate_events(Tail(events), mode)
         IN  [episodic |-> EpisodicOf(Head(events), mode) \o rest.episodic,
              semantic |-> SemanticOf(Head(events), mode) \o rest.semantic,
              procedural |->
                  ProceduralOf(Head(events), mode) \o rest.procedural]

\* The keys of grouped, in the order consolidate iterates over them
Kinds == <<"episodic", "semantic", "procedural">>

\* items[: max_items] as a broken build would have it: every item
SliceAll(items, m) == items

\* items[: max_items]: the first m items, or all but the last -m for m < 0
Slice(items, m) ==
    IF m >= 0 THEN Take(items, m)
    ELSE SubSeq(items, 1, Max(0, Len(items) + m))

\* if len(items) > max_items: skipped += len(items) - max_items
Overflow(items, m) == IF Len(items) > m THEN Len(items) - m ELSE 0

\* mem_payload: "user_id": events[0].get("user_id"), the text of the item,
\* and in metadata its kind and its provenance
ConsolidatePayload(item, events) ==
    [has_source |-> FALSE, user_id |-> events[1].user_id, text |-> item.text,
     kind |-> item.kind, provenance |-> item.provenance]

RECURSIVE PayloadsOf(_, _)
PayloadsOf(items, events) ==
    IF items = <<>> THEN <<>>
    ELSE <<ConsolidatePayload(Head(items), events)>>
             \o PayloadsOf(Tail(items), events)

\* max(evt.get("timestamp", 0) for evt in events)
RECURSIVE NewestTs(_)
NewestTs(events) ==
    IF events = <<>> THEN 0
    ELSE Max(Head(events).timestamp, NewestTs(Tail(events)))

\* consolidate: the batch read, the memory requests handed to enqueue_memory
\* in order, the counts of the response, and the up_to_ts of
\* mark_consolidated (<<>>: not called)
consolidate(table, mode, m) ==
    LET events == recent_for_scope(table, m * 3)
        grouped == consolidate_events(events, mode)
    IN  IF events = <<>>
        THEN [events |-> events, payloads |-> <<>>,
              written |-> [k \in Range(Kinds) |-> 0], skipped |-> 0,
              marked |-> NoTs]
        ELSE [events |-> events,
              payloads |-> PayloadsOf(Slice(grouped.episodic, m)
                                      \o Slice(grouped.semantic, m)
                                      \o Slice(grouped.procedural, m),
                                      events),
              written |-> [k \in Range(Kinds) |-> Len(Slice(grouped[k], m))],
              skipped |-> Overflow(grouped.episodic, m)
                          + Overflow(grouped.semantic, m)
                          + Overflow(grouped.procedural, m),
              marked |-> <<NewestTs(events)>>]

\* DurableQueue.enqueue for each request in turn: ids from id on
RECURSIVE EnqueueAll(_, _, _)
EnqueueAll(bl, payloads, id) ==
    IF payloads = <<>> THEN bl
    ELSE EnqueueAll(Append(bl, QueueJob(id, MemoryEnvelope(Head(payloads)))),
                    Tail(payloads), id + 1)

ConsolidateAtRest == cons = [done |-> FALSE, table |-> <<>>]

InitConsolidate == \E t \in ConsolidateTables : cons = [done |-> FALSE, table |-> t]

\* POST /consolidate over the rows table (newest first), from the request to
\* the response; every enqueue_memory runs to its end.  passes and prev: the
\* requests made so far and what the one before this left.
ConsolidateOn(table, mode, m, passes, prev) ==
    \E c \in {consolidate(table, mode, m)} :
    \E bl \in {EnqueueAll(backlog, c.payloads, next_id)} :
        /\ UNCHANGED <<svars, avars, rvars, obs, sal, rec, llm, qm>>
        /\ up
        /\ io.op = "none"
        /\ backlog' = bl
        /\ spool_before' = spool
        /\ spool_after' = PersistLines(bl)
        /\ spool' = PersistLines(bl)
        /\ queue_rt' = PutAll(queue_rt, SubSeq(bl, Len(backlog) + 1, Len(bl)))
        /\ enq_started' = enq_started \cup (IdsOf(bl) \ IdsOf(backlog))
        /\ enq_acked' = enq_acked \cup (IdsOf(bl) \ IdsOf(backlog))
        /\ UNCHANGED persist_failed
        /\ next_id' = next_id + Len(c.payloads)
        /\ UNCHANGED <<up, io, worker, stored, crashes, done_called,
                       done_returned>>
        /\ IF c.marked = NoTs
           THEN UNCHANGED cvars
           ELSE /\ cursor' = mark_consolidated(cursor, ConsolidateScope,
                                               c.marked[1])
                /\ max_passed' =
                       [max_passed EXCEPT ![_scope_key(ConsolidateScope)] =
                            MaxTs(@, c.marked[1])]
        /\ cons' = [done |-> TRUE, table |-> table, mode |-> mode,
                    max_items |-> m, events |-> c.events,
                    written |-> c.written, skipped |-> c.skipped,
                    backlog_before |-> backlog, marked |-> c.marked,
                    enqueued |-> Len(c.payloads), rows |-> rows,
                    cursor_before |-> cursor, passes |-> passes,
                    prev |-> prev]

NoPass == [done |-> FALSE]

Consolidate(mode, m) ==
    ~cons.done /\ ConsolidateOn(cons.table, mode, m, 1, NoPass)

NextConsolidate == \E mode \in Modes, m \in MaxItemsValues : Consolidate(mode, m)

\* The jobs of a kind the request has put on the durable queue
EnqueuedOfKind(kind) ==
    Cardinality({i \in Len(cons.backlog_before) + 1 .. Len(backlog) :
                    backlog[i].payload.payload.kind = kind})

\* The items consolidate_events extracts from the batch, per kind
Extracted(kind) == Len(consolidate_events(cons.events, cons.mode)[kind])

\* The claim's counts: min(m, n) jobs enqueued and reported for each kind, the
\* items beyond the first m of each kind skipped, nothing else
CountsAsClaimed ==
    LET m == cons.max_items
    IN  /\ \A k \in Range(Kinds) :
               /\ cons.written[k] = Min(m, Extracted(k))
               /\ EnqueuedOfKind(k) = Min(m, Extracted(k))
        /\ cons.skipped = (IF Extracted("episodic") > m
                           THEN Extracted("episodic") - m ELSE 0)
                        + (IF Extracted("semantic") > m
                           THEN Extracted("semantic") - m ELSE 0)
                        + (IF Extracted("procedural") > m
                           THEN Extracted("procedural") - m ELSE 0)
        /\ cons.written["episodic"] + cons.written["semantic"]
             + cons.written["procedural"] + cons.skipped
           = Extracted("episodic") + Extracted("semantic")
             + Extracted("procedural")

\* C30 as stated: after /consolidate with max_items = m over a non-empty
\* batch, each kind with n extracted items has exactly min(m, n) jobs
\* enqueued and reported in written, skipped is the number of items beyond
\* the first m of each kind, and written plus skipped is the number of
\* extracted items.
C30_AsStated ==
    (cons.done /\ cons.events # <<>>) => CountsAsClaimed

\* C30, amended: the same for every request whose max_items is at least 1.
C30_FirstMPerKind ==
    (cons.done /\ cons.events # <<>> /\ cons.max_items >= 1)
        => CountsAsClaimed

\* a request that enqueued the first item of a kind and skipped the others
C30_Witness ==
    /\ cons.done
    /\ cons.max_items = 1
    /\ cons.written["episodic"] = 1
    /\ cons.written["semantic"] = 1
    /\ cons.skipped >= 2
    /\ Len(backlog) = Len(cons.backlog_before) + 2

(***************************************************************************)
(* /observe step by step, with crashes and re-sent observations            *)
(* (memory_governor.app.observe, _on_startup)                              *)
(***************************************************************************)
\* The observations a source sends, and sends again: a greeting (ignored)
\* and a note (candidate), with an event id and without
ResendEvents ==
    {e \in ObserveEvents :
        e.event_id # "" /\ e.reason = None /\ Len(e.text) # 4}

\* No request in the handler, no candidate accepted so far (pending: the
\* observation add_working has inserted and enqueue_memory has not yet been
\* called for; accepted: the candidates add_working has inserted)
ResendAtRest == [done |-> FALSE, pending |-> <<>>, accepted |-> {}]

InitResend == obs = ResendAtRest

\* observe up to the commit of add_working; for an observation that is
\* deduplicated or not a candidate, up to the response
ObserveInsert(e) ==
    /\ UNCHANGED <<qvars, cvars, avars, rvars, sal, hvars>>
    /\ up
    /\ obs.pending = <<>>
    /\ next_id <= MaxJobs
    /\ \E res \in {add_working(rows, e, Clock[now])} :
         /\ res.status # "error"
         /\ Cardinality(res.rows) <= MaxRows
         /\ rows' = res.rows
         /\ last_add' = [event |-> e, status |-> res.status]
         /\ obs' = IF /\ res.status = "inserted"
                      /\ ShouldEnqueue(classify_observation(e).kind)
                   THEN [obs EXCEPT !.pending = <<e>>,
                                    !.accepted = @ \cup {e}]
                   ELSE obs
    /\ now' = now

\* observe from enqueue_memory to the response: the job is in the backlog,
\* in the spool and on the runtime queue
ObserveEnqueue ==
    /\ UNCHANGED <<svars, cvars, avars, rvars, sal, hvars>>
    /\ up
    /\ obs.pending # <<>>
    /\ \E job \in {QueueJob(next_id,
                            MemoryEnvelope(ObservePayload(obs.pending[1])))} :
         /\ backlog' = Append(backlog, job)
         /\ spool_before' = spool
         /\ spool_after' = PersistLines(Append(backlog, job))
         /\ spool' = PersistLines(Append(backlog, job))
         /\ queue_rt' = put_nowait(queue_rt, job)
    /\ enq_started' = enq_started \cup {next_id}
    /\ enq_acked' = enq_acked \cup {next_id}
    /\ next_id' = next_id + 1
    /\ obs' = [obs EXCEPT !.pending = <<>>]
    /\ UNCHANGED <<up, io, worker, stored, crashes, persist_failed,
                   done_called, done_returned>>

\* The process dies, a request in the handler or not: the backlog, the
\* runtime queue and the handler are gone, the spool and the working_events
\* table stay
ObserveCrash ==
    /\ UNCHANGED <<svars, cvars, avars, rvars, sal, hvars>>
    /\ up
    /\ crashes < MaxCrashes
    /\ crashes' = crashes + 1
    /\ up' = FALSE
    /\ backlog' = <<>>
    /\ queue_rt' = <<>>
    /\ worker' = IdleWorker
    /\ obs' = [obs EXCEPT !.pending = <<>>]
    /\ UNCHANGED <<spool, io, stored, next_id, enq_started, enq_acked,
                   persist_failed, done_called, done_returned, spool_before,
                   spool_after>>

\* _on_startup of a new process: store.cleanup(), then runtime.start() with
\* the jobs DurableQueue.__init__ has loaded from the spool
OnStartup ==
    /\ UNCHANGED <<cvars, avars, rvars, ovars>>
    /\ ~up
    /\ up' = TRUE
    /\ rows' = {r \in rows : ~(r.ts < Clock[now] - TtlHours * 3600)}
    /\ backlog' = Load(spool)
    /\ queue_rt' = PutAll(<<>>, Load(spool))
    /\ worker' = IdleWorker
    /\ UNCHANGED <<now, last_add, spool, io, stored, next_id, crashes,
                   enq_started, enq_acked, persist_failed, done_called,
                   done_returned, spool_before, spool_after>>

\* The source sends an observation again that was accepted before
Resend == \E e \in obs.accepted : ObserveInsert(e)

NextResend ==
    \/ \E e \in ResendEvents : ObserveInsert(e)
    \/ ObserveEnqueue
    \/ ObserveCrash
    \/ OnStartup
    \/ Tick

\* The durable queue holds a write-back job for the observation
HasJob(e) ==
    \E i \in DOMAIN backlog : backlog[i].payload.payload = ObservePayload(e)

\* C39: every candidate observation add_working has inserted has a write-back
\* job in the durable queue in the end, also when the process dies between
\* the insert and the enqueue and the source sends the observation again
\* after the restart.
C39_AcceptedEventuallyQueued ==
    \A e \in {c \in ResendEvents :
                ShouldEnqueue(classify_observation(c).kind)} :
        (e \in obs.accepted) ~> HasJob(e)

(***************************************************************************)
(* One scope over time: /observe, cleanup and /consolidate on the working  *)
(* store of a running governor                                             *)
(***************************************************************************)
\* /consolidate requests made in one behaviour
MaxPasses == 2

\* A text /observe keeps in the working store only, with an episodic and a
\* procedural reading
ScopeTexts == {<<"r", "u", "n">>}

\* ObserveRequest.timestamp is the sender's: long past, or recent
ScopeTimestamps == {1, 100000}

\* ConsolidateRequest: the modes and max_items of the requests for the room
ScopeModes == {"all", "semantic"}
ScopeMaxItems == {0, 2}

\* The observations of the scope's room, by two users
ScopeEvents ==
    [source : {"s1"}, user_id : Users, text : ScopeTexts,
     timestamp : ScopeTimestamps, event_id : {None}, reason : {None},
     scope : {ConsolidateScope}]

\* add_working's INSERT: the columns of NewRow and those recent_for_scope
\* reads, text, scope_kind and scope_id
WorkingRow(e, t) ==
    [source |-> e.source, user_id |-> e.user_id, text |-> e.text,
     normalized_text |-> Normalized(e), ts |-> EventTs(e, t),
     scope_kind |-> e.scope.kind, scope_id |-> e.scope.id,
     event_id |-> e.event_id]

\* recent_for_scope: a row as the dict the handler reads
EventOf(r) ==
    [source |-> r.source, user_id |-> r.user_id, text |-> r.text,
     timestamp |-> r.ts, event_id |-> r.event_id]

\* SELECT ... WHERE scope_kind=? AND scope_id=?
InScope(rs, scope) ==
    {r \in rs : r.scope_kind = scope.kind /\ r.scope_id = scope.id}

\* ORDER BY ts DESC: every order of the scope's rows with ts descending; rows
\* of equal ts come in any order
ScopeOrders(rs, scope) ==
    {[i \in 1 .. Cardinality(InScope(rs, scope)) |-> EventOf(f[i])] :
        f \in {g \in [1 .. Cardinality(InScope(rs, scope))
                          -> InScope(rs, scope)] :
                 \A i, j \in DOMAIN g :
                     i < j => g[i] # g[j] /\ g[i].ts >= g[j].ts}}

ScopeAtRest ==
    [done |-> FALSE, table |-> <<>>, passes |-> 0, rows |-> {},
     marked |-> NoTs]

InitScope == cons = ScopeAtRest

\* POST /observe of an observation of the room
ScopeObserve(e) ==
    \E o \in {observe(rows, e, Clock[now])} :
        ObserveWith(e, o, IF o.added
                          THEN rows \cup {WorkingRow(e, Clock[now])}
                          ELSE rows)

\* POST /consolidate for the room, on the rows the working store holds
ScopeConsolidate(mode, m) ==
    /\ cons.passes < MaxPasses
    /\ \E table \in ScopeOrders(rows, ConsolidateScope) :
           ConsolidateOn(table, mode, m, cons.passes + 1,
                         [done |-> cons.done, rows |-> cons.rows,
                          marked |-> cons.marked])

\* _on_startup runs cleanup on the working store; time passes between two
\* requests
NextScope ==
    \/ \E e \in ScopeEvents : ScopeObserve(e)
    \/ \E mode \in ScopeModes, m \in ScopeMaxItems : ScopeConsolidate(mode, m)
    \/ Cleanup
    \/ Tick

\* The cursor row of the room
RoomCursor(cur) == consolidated_cursor(cur, ConsolidateScope)

\* C31: each /consolidate that sees events leaves the scope's cursor at the
\* newest timestamp among them, and over /observe calls with any timestamps,
\* cleanup passes and /consolidate calls the cursor of a scope never moves
\* backwards.
C31_CursorNeverBackwards ==
    /\ [][(cons' # cons /\ cons'.events # <<>>)
             => RoomCursor(cursor') = <<NewestTs(cons'.events)>>]_vars
    /\ [][\A k \in ScopeKeys :
             cursor[k] # NoTs
                 => cursor'[k] # NoTs /\ cursor'[k][1] >= cursor[k][1]]_vars

\* The memory requests the last /consolidate handed to enqueue_memory
LastEnqueued ==
    {backlog[Len(cons.backlog_before) + i].payload.payload :
        i \in 1 .. cons.enqueued}

\* The working events of the batch a memory request was extracted from
OriginsOf(p) ==
    {cons.events[j] : j \in {i \in DOMAIN cons.events :
        /\ Provenance(cons.events[i]) = p.provenance
        /\ p.text \in {cons.events[i].text,
                        canonicalize_memory(cons.events[i].text)}}}

\* C37: every memory /consolidate enqueues carries the user_id of the working
\* event it was extracted from, also when the batch holds events of several
\* users.
C37_OwnUserId ==
    cons.done
        => \A p \in LastEnqueued :
               \E evt \in OriginsOf(p) : evt.user_id = p.user_id

\* C38: a /consolidate that follows one that advanced the scope's cursor,
\* with the working store holding the rows it held then, enqueues no job.
C38_ExtractedOnce ==
    (cons.done /\ cons.prev.done /\ cons.prev.marked # NoTs
        /\ cons.prev.rows = cons.rows)
        => cons.enqueued = 0


(***************************************************************************)
(* /recall (memory_governor.app.recall)                                    *)
(***************************************************************************)
\* time.time() of the request, and thirty days in seconds
RecallNow == 10000000
ThirtyDays == 86400 * 30

\* The memories hippo.query_memories returns: metadata kind (None: no kind),
\* confidence in hundredths (<<>>: none) and timestamp (0: none).  The text
\* names the candidate.
RecallCandidates ==
    [kind : {None, "semantic", "episodic"}, confidence : {<<>>, <<40>>, <<80>>},
     timestamp : {0, RecallNow - ThirtyDays \div 2}]

MaxRecalled == 2

\* RecallFilters.kinds: <<>> for None, <<S>> for a list with the elements S;
\* min_confidence in hundredths likewise; RecallRequest.k
KindFilters == {<<>>, <<{}>>, <<{"semantic"}>>}
ConfidenceFilters == {<<>>, <<50>>}
RecallLimits == 1 .. MaxRecalled

\* recall as a broken build would have it: the kinds filter drops nothing
KindPassesAlways(kinds, kind) == TRUE

\* if payload.filters.kinds and kind and kind not in payload.filters.kinds:
\*     continue
KindPasses(kinds, kind) ==
    ~(kinds # <<>> /\ kinds[1] # {} /\ kind # None /\ kind \notin kinds[1])

\* if min_confidence is not None and confidence is not None:
\*     if confidence < min_confidence: continue
ConfidencePasses(min_confidence, confidence) ==
    ~(min_confidence # <<>> /\ confidence # <<>>
        /\ confidence[1] < min_confidence[1])

\* The RecallItem of a memory: kind, confidence and timestamp from its metadata
RecallItem(mem) ==
    [kind |-> mem.kind, confidence |-> mem.confidence,
     timestamp |-> mem.timestamp]

\* the loop over memories: filtered, in the order of the candidates
RECURSIVE Filtered(_, _, _)
Filtered(mems, kinds, min_confidence) ==
    IF mems = <<>> THEN <<>>
    ELSE (IF /\ KindPasses(kinds, Head(mems).kind)
             /\ ConfidencePasses(min_confidence, Head(mems).confidence)
          THEN <<RecallItem(Head(mems))>> ELSE <<>>)
         \o Filtered(Tail(mems), kinds, min_confidence)

\* recency of _score in hundredths: 1 - age_days / 30, at least 0; 0.3 for an
\* item with no timestamp
Recency(ts, t) ==
    IF ts = 0 THEN 30
    ELSE Max(0, 100 - (Max(0, t - ts) * 100) \div ThirtyDays)

\* _score, in thousandths: conf * 0.7 + recency * 0.3, conf = confidence or 0.5
_score(item, t) ==
    7 * (IF item.confidence = <<>> \/ item.confidence[1] = 0
         THEN 50 ELSE item.confidence[1])
      + 3 * Recency(item.timestamp, t)

\* sorted(filtered, key=_score, reverse=True): a stable sort, items of equal
\* score stay in their order
RECURSIVE InsertRanked(_, _, _)
InsertRanked(item, ranked, t) ==
    IF ranked = <<>> THEN <<item>>
    ELSE IF _score(Head(ranked), t) >= _score(item, t)
         THEN <<Head(ranked)>> \o InsertRanked(item, Tail(ranked), t)
         ELSE <<item>> \o ranked

RECURSIVE Ranked(_, _)
Ranked(items, t) ==
    IF items = <<>> THEN <<>>
    ELSE InsertRanked(items[Len(items)],
                      Ranked(SubSeq(items, 1, Len(items) - 1), t), t)

\* recall: ranked[: payload.k]
recall(mems, kinds, min_confidence, k, t) ==
    Take(Ranked(Filtered(mems, kinds, min_confidence), t), k)

RecallAtRest == rec = [done |-> FALSE]

\* POST /recall, from the request to the response
Recall(mems, kinds, min_confidence, k) ==
    /\ UNCHANGED <<qvars, svars, cvars, avars, rvars, obs, sal, cons, llm, qm>>
    /\ rec' = [done |-> TRUE, memories |-> mems, kinds |-> kinds,
               min_confidence |-> min_confidence, k |-> k,
               results |-> recall(mems, kinds, min_confidence, k, RecallNow)]

\* one request is followed
NextRecall ==
    /\ ~rec.done
    /\ \E mems \in SeqsUpTo(RecallCandidates, MaxRecalled), kinds \in KindFilters,
          min_confidence \in ConfidenceFilters, k \in RecallLimits :
           Recall(mems, kinds, min_confidence, k)

\* no result has a confidence below min_confidence, when it is given
NoneBelowMinConfidence ==
    rec.min_confidence # <<>>
        => \A i \in 1 .. Len(rec.results) :
               ~(/\ rec.results[i].confidence # <<>>
                 /\ rec.results[i].confidence[1] < rec.min_confidence[1])

\* C23 as stated: when kinds is given, no result of /recall has a kind
\* outside the given set, a result with no kind counting as outside; when
\* min_confidence is given, no result has a confidence below it.
C23_AsStated ==
    rec.done
        => /\ rec.kinds # <<>>
                => \A i \in 1 .. Len(rec.results) :
                       rec.results[i].kind \in rec.kinds[1]
           /\ NoneBelowMinConfidence

\* C23, amended: when kinds is given and not empty, every result of /recall
\* has no kind or a kind of the given set; when min_confidence is given, no
\* result has a confidence below it; the results are the candidates that
\* pass, ranked, so the filters come before the ranking.
C23_FilterBeforeRank ==
    rec.done
        => /\ (rec.kinds # <<>> /\ rec.kinds[1] # {})
                => \A i \in 1 .. Len(rec.results) :
                       \/ rec.results[i].kind = None
                       \/ rec.results[i].kind \in rec.kinds[1]
           /\ NoneBelowMinConfidence
           /\ rec.results =
                  Take(Ranked(Filtered(rec.memories, rec.kinds,
                                       rec.min_confidence), RecallNow), rec.k)

\* both filters given, a candidate of another kind and one below the
\* confidence dropped, one result left
C23_Witness ==
    /\ rec.done
    /\ rec.kinds = <<{"semantic"}>>
    /\ rec.min_confidence = <<50>>
    /\ Len(rec.memories) = 2
    /\ rec.memories[1].kind = "episodic"
    /\ rec.memories[2].kind = "semantic"
    /\ rec.memories[2].confidence = <<80>>
    /\ Len(rec.results) = 1

(***************************************************************************)
(* LLM client (sacred_brain.llm_client.LLMClient.generate_reply)           *)
(***************************************************************************)
MaxRetries == 2

\* LLMClient(enabled=..., retries=...); retries -1: the loop body never runs
Retries == -1 .. MaxRetries

\* What one attempt comes to.  ok: httpx.post returned, raise_for_status
\* passed and data["choices"][0]["message"]["content"] was read (<<>>: the
\* content is null).  The others raise inside the try: the post itself
\* (connection, timeout), raise_for_status, or reading the body.
Failed == {[ok |-> FALSE, why |-> w] : w \in {"post", "status", "body"}}
Succeeded == {[ok |-> TRUE, content |-> c] : c \in {<<>>, <<"hi">>, <<"yo">>}}
Outcomes == Failed \cup Succeeded

\* return data[...]["content"], as a broken build would have it: dropped
ReplyDropped(outcome) == <<>>

\* return data["choices"][0]["message"]["content"]
ReplyOf(outcome) == outcome.content

\* while attempt <= self.retries
LoopContinues(attempt, retries) == attempt <= retries

\* if attempt > self.retries: return None
GivesUp(attempt, retries) == attempt > retries

LlmAtRest == llm = [pc |-> "idle", enabled |-> FALSE, retries |-> 0]

InitLlm == llm \in [pc : {"idle"}, enabled : BOOLEAN, retries : Retries]

\* generate_reply is called: if not self.enabled: return None; otherwise the
\* request is built and attempt = 0
GenerateReply ==
    /\ UNCHANGED <<qvars, svars, cvars, avars, rvars, obs, sal, cons, rec, qm>>
    /\ llm.pc = "idle"
    /\ llm' = IF ~llm.enabled
              THEN [pc |-> "done", enabled |-> llm.enabled,
                    retries |-> llm.retries, attempt |-> 0, log |-> <<>>,
                    result |-> <<>>]
              ELSE [pc |-> "loop", enabled |-> llm.enabled,
                    retries |-> llm.retries, attempt |-> 0, log |-> <<>>,
                    result |-> <<>>]

\* the loop test fails: the return None after the loop
LoopExit ==
    /\ UNCHANGED <<qvars, svars, cvars, avars, rvars, obs, sal, cons, rec, qm>>
    /\ llm.pc = "loop"
    /\ ~LoopContinues(llm.attempt, llm.retries)
    /\ llm' = [llm EXCEPT !.pc = "done", !.result = <<>>]

\* one pass of the loop body: httpx.post and what follows it in the try, or
\* the except branch; log is the list of the HTTP requests made
Attempt(outcome) ==
    /\ UNCHANGED <<qvars, svars, cvars, avars, rvars, obs, sal, cons, rec, qm>>
    /\ llm.pc = "loop"
    /\ LoopContinues(llm.attempt, llm.retries)
    /\ llm' = IF outcome.ok
              THEN [llm EXCEPT !.pc = "done", !.log = Append(@, outcome),
                               !.result = ReplyOf(outcome)]
              ELSE IF GivesUp(llm.attempt + 1, llm.retries)
              THEN [llm EXCEPT !.pc = "done", !.log = Append(@, outcome),
                               !.attempt = @ + 1, !.result = <<>>]
              ELSE [llm EXCEPT !.pc = "sleep", !.log = Append(@, outcome),
                               !.attempt = @ + 1]

\* time.sleep(0.5) returns
Wake ==
    /\ UNCHANGED <<qvars, svars, cvars, avars, rvars, obs, sal, cons, rec, qm>>
    /\ llm.pc = "sleep"
    /\ llm' = [llm EXCEPT !.pc = "loop"]

NextLlm ==
    \/ GenerateReply
    \/ LoopExit
    \/ \E outcome \in Outcomes : Attempt(outcome)
    \/ Wake

\* The call is under way or over
Called == llm.pc # "idle"

\* What generate_reply has done is what the claim allows: no request when
\* disabled, at most retries + 1 requests, none after a successful one; the
\* reply is the content of the successful response, or None when every attempt
\* failed.
ReplyAsClaimed ==
    Called =>
        /\ ~llm.enabled => llm.log = <<>>
        /\ Len(llm.log) <= llm.retries + 1
        /\ \A i \in 1 .. Len(llm.log) - 1 : ~llm.log[i].ok
        /\ llm.pc = "done" =>
               IF llm.log # <<>> /\ llm.log[Len(llm.log)].ok
               THEN llm.result = llm.log[Len(llm.log)].content
               ELSE /\ llm.result = <<>>
                    /\ llm.enabled => Len(llm.log) = llm.retries + 1

\* C25: generate_reply makes no HTTP request and returns None when the client
\* is disabled; when enabled it makes at most retries + 1 attempts, returns
\* the content of the first successful response, returns None once every
\* attempt has failed, and always returns.
C25_BoundedRetries ==
    /\ []ReplyAsClaimed
    /\ Called ~> llm.pc = "done"

\* two failed attempts, then the reply of the third
C25_Witness ==
    /\ llm.pc = "done"
    /\ llm.enabled
    /\ llm.retries = 2
    /\ Len(llm.log) = 3
    /\ llm.result = <<"hi">>

(***************************************************************************)
(* Recall through the storage service                                      *)
(* (memory_governor.clients.HippocampusClient.query_memories,              *)
(*  brain.hippocampus.app.query_memories)                                  *)
(***************************************************************************)
\* memories the storage service holds in one behaviour
MaxKept == 2

\* The memories of user u1 in the storage service: text, metadata.keywords
\* and metadata.timestamp (0: none)
ClientMemories ==
    {[text |-> <<"t", "e", "a">>, keywords |-> <<>>, timestamp |-> 0],
     [text |-> <<"m", "u", "g">>, keywords |-> <<<<"t", "e", "a">>>>,
      timestamp |-> RecallNow - ThirtyDays \div 2],
     [text |-> <<"p", "o", "t">>, keywords |-> <<<<"M", "u", "g">>>>,
      timestamp |-> 0]}

\* The queries: one word; two words; two words of which one is nowhere; a
\* word with a LIKE wildcard; no word
ClientQueries ==
    {<<"T", "e", "a">>,
     <<"t", "e", "a", " ", "m", "u", "g">>,
     <<"c", "u", "p", " ", "t", "e", "a">>,
     <<"t", "_", "a">>,
     <<"?">>}

\* limit: Optional[int]
ClientLimits == {<<>>, <<1>>, <<2>>}

\* Mem0Adapter.backend of the storage service
StorageBackends == {"memory", "sqlite", "remote"}

\* LIKE: _ stands for one character, % for any run of characters
RECURSIVE Like(_, _)
Like(text, pattern) ==
    IF pattern = <<>> THEN text = <<>>
    ELSE IF Head(pattern) = "%"
    THEN \E k \in 0 .. Len(text) :
             Like(SubSeq(text, k + 1, Len(text)), Tail(pattern))
    ELSE /\ text # <<>>
         /\ Head(pattern) = "_" \/ Head(pattern) = Head(text)
         /\ Like(Tail(text), Tail(pattern))

\* SQLiteMem0Client.query_memories: LOWER(text) LIKE '%' || query.lower() ||
\* '%' ORDER BY rowid DESC LIMIT ?
SqliteQuery(store, query, limit) ==
    LET Test(m) == Like(Lower(m.text), <<"%">> \o Lower(query) \o <<"%">>)
    IN  Take(SelectSeq(Reverse(store), Test), limit)

\* InMemoryMem0Client.query_memories: query_lower in memo["text"].lower(),
\* matches[:limit]
MemoryQuery(store, query, limit) ==
    LET Test(m) == Contains(Lower(m.text), Lower(query))
    IN  Take(SelectSeq(store, Test), limit)

\* Mem0RemoteClient.query_memories: what the SDK's search may answer with
\* top_k = limit, some memories of the user in the order of the store
RemoteAnswers(store, limit) ==
    {Take(SelectSeq(store, LAMBDA m : m \in S), limit) :
        S \in SUBSET Range(store)}

\* Mem0Adapter.query_memories on a primary that does not raise:
\* limit or self.default_query_limit
AdapterAnswers(backend, store, query, limit) ==
    LET n == IF limit = <<>> THEN DefaultQueryLimit ELSE limit[1]
    IN  IF backend = "memory" THEN {MemoryQuery(store, query, n)}
        ELSE IF backend = "sqlite" THEN {SqliteQuery(store, query, n)}
        ELSE RemoteAnswers(store, n)

\* GET /memories/{user_id} of the storage service: query is required
\* (Query(..., min_length=1)), limit is None or in 1 .. 100; the request is
\* answered 422 otherwise.  params: query and limit, <<>> when not sent.
StorageGet(backend, store, params) ==
    IF \/ params.query = <<>>
       \/ Len(params.query[1]) < 1
       \/ params.limit # <<>> /\ params.limit[1] \notin 1 .. 100
    THEN {[status |-> 422, memories |-> <<>>]}
    ELSE {[status |-> 200, memories |-> ans] :
            ans \in AdapterAnswers(backend, store, params.query[1],
                                   params.limit)}

\* No answer: the request raised (network error, timeout)
NoAnswer == [status |-> 0, memories |-> <<>>]

\* kw_lower = [str(k).lower() for k in keywords]
RECURSIVE LowerAll(_)
LowerAll(kws) ==
    IF kws = <<>> THEN <<>> ELSE <<Lower(Head(kws))>> \o LowerAll(Tail(kws))

\* text_hits or kw_hits: q in text, q in " ".join(kw_lower)
SubstringHit(mem, q) ==
    \/ Contains(Lower(mem.text), q)
    \/ Contains(Join(LowerAll(mem.keywords), <<" ">>), q)

\* tok in text or tok in kw_lower: a substring of the text, or a keyword
TokenHit(mem, tok) ==
    \/ Contains(Lower(mem.text), tok)
    \/ tok \in Range(LowerAll(mem.keywords))

\* tokens and all(tok in text or tok in kw_lower for tok in tokens)
AllTokensHit(mem, tokens) ==
    tokens # <<>> /\ \A i \in DOMAIN tokens : TokenHit(mem, tokens[i])

\* any(tok in text or tok in kw_lower for tok in tokens)
AnyTokenHit(mem, tokens) == \E i \in DOMAIN tokens : TokenHit(mem, tokens[i])

\* The first loop: the memories with a substring hit or all tokens
FirstMatched(results, q) ==
    SelectSeq(results,
              LAMBDA mem : SubstringHit(mem, q)
                              \/ AllTokensHit(mem, FindWords(q)))

\* if not matched and tokens: the memories with any token
Matched(results, q) ==
    IF FirstMatched(results, q) = <<>> /\ FindWords(q) # <<>>
    THEN SelectSeq(results, LAMBDA mem : AnyTokenHit(mem, FindWords(q)))
    ELSE FirstMatched(results, q)

\* _score of query_memories, in hundredths: the recency, 0.3 with no
\* timestamp
ClientScore(mem, t) == Recency(mem.timestamp, t)

\* sorted(matched, key=_score, reverse=True): a stable sort
RECURSIVE InsertByRecency(_, _, _)
InsertByRecency(mem, sorted, t) ==
    IF sorted = <<>> THEN <<mem>>
    ELSE IF ClientScore(Head(sorted), t) >= ClientScore(mem, t)
         THEN <<Head(sorted)>> \o InsertByRecency(mem, Tail(sorted), t)
         ELSE <<mem>> \o sorted

RECURSIVE ByRecency(_, _)
ByRecency(mems, t) ==
    IF mems = <<>> THEN <<>>
    ELSE InsertByRecency(mems[Len(mems)],
                         ByRecency(SubSeq(mems, 1, Len(mems) - 1), t), t)

\* query_memories from "q = query.lower()" on: matched[:limit] if limit
\* else matched, by recency; results[: (limit or len(results))] when nothing
\* matched
LocalFilter(results, query, limit, t) ==
    IF Matched(results, Lower(query)) # <<>>
    THEN IF limit = <<>>
         THEN ByRecency(Matched(results, Lower(query)), t)
         ELSE Take(ByRecency(Matched(results, Lower(query)), t), limit[1])
    ELSE IF limit = <<>> THEN results ELSE Take(results, limit[1])

\* HippocampusClient.query_memories, given the answers to its two GETs: the
\* requests sent and what is returned
query_memories(first, second, query, limit, t) ==
    IF first.status = 200 /\ first.memories # <<>>
    THEN [gets |-> 1,
          result |-> LocalFilter(first.memories, query, limit, t)]
    ELSE IF second.status # 200
    THEN [gets |-> 2, result |-> <<>>]
    ELSE [gets |-> 2,
          result |-> LocalFilter(second.memories, query, limit, t)]

QueryAtRest == qm = [done |-> FALSE]

\* query_memories(user_id, query, limit) against the storage service, from
\* the first GET to the return.  down: the first GET raises.
ClientQuery(backend, store, query, limit, down) ==
    /\ UNCHANGED <<qvars, svars, cvars, avars, rvars, obs, sal, cons, rec,
                   llm>>
    /\ \E first \in (IF down THEN {NoAnswer}
                     ELSE StorageGet(backend, store,
                                     [query |-> <<query>>, limit |-> limit])),
          second \in StorageGet(backend, store,
                                [query |-> <<>>,
                                 limit |-> IF limit = <<>> THEN <<50>>
                                           ELSE limit]) :
         \E out \in {query_memories(first, second, query, limit, RecallNow)} :
           qm' = [done |-> TRUE, backend |-> backend, store |-> store,
                  query |-> query, limit |-> limit, first |-> first,
                  second |-> second, gets |-> out.gets,
                  result |-> out.result]

\* one call is followed
NextQuery ==
    /\ ~qm.done
    /\ \E backend \in StorageBackends,
          store \in SeqsUpTo(ClientMemories, MaxKept),
          query \in ClientQueries, limit \in ClientLimits, down \in BOOLEAN :
           ClientQuery(backend, store, query, limit, down)

\* The memories the local filter looked at: those of the last GET answered
Examined == IF qm.gets = 1 THEN qm.first.memories ELSE qm.second.memories

\* C33: every memory query_memories returns for a query with at least one
\* token matches the query (the query is a substring of its text or of its
\* joined keywords, or all tokens appear in it, or, only when no memory
\* matches in these ways, some token appears in it), and at most limit
\* memories are returned.
C33_OnlyMatchesReturned ==
    (qm.done /\ FindWords(Lower(qm.query)) # <<>>) =>
        LET q == Lower(qm.query)
            Strong(m) == SubstringHit(m, q) \/ AllTokensHit(m, FindWords(q))
        IN  /\ \A i \in DOMAIN qm.result :
                \/ Strong(qm.result[i])
                \/ /\ \A j \in DOMAIN Examined : ~Strong(Examined[j])
                   /\ AnyTokenHit(qm.result[i], FindWords(q))
            /\ qm.limit # <<>> => Len(qm.result) <= qm.limit[1]

\* A memory that matches the query by a keyword only, not by its text
KeywordOnly(m, q) ==
    /\ ~Contains(Lower(m.text), q)
    /\ \E i \in DOMAIN FindWords(q) :
           FindWords(q)[i] \in Range(LowerAll(m.keywords))

\* C34: when the storage query endpoint answers with an empty list,
\* query_memories sends a second GET without a query, the storage service
\* answers it with the user's memories, and a stored memory that matches the
\* query only by a keyword is returned (the limit permitting).
C34_KeywordMatchRecalled ==
    (qm.done /\ qm.first = [status |-> 200, memories |-> <<>>]) =>
        /\ qm.gets = 2
        /\ qm.second.status = 200
        /\ \A i \in DOMAIN qm.store :
               (/\ KeywordOnly(qm.store[i], Lower(qm.query))
                /\ qm.limit = <<>> \/ Len(qm.store) <= qm.limit[1])
                   => \E j \in DOMAIN qm.result : qm.result[j] = qm.store[i]

(***************************************************************************)
(* Specifications                                                          *)
(***************************************************************************)
\* The durable queue of a first start on an empty state directory
QueueAtRest == InitQueue /\ spool = <<>>

CursorAtRest == InitCursor
AdapterAtRest == InitAdapter /\ primary.kind = "memory"
ObserveAtRest == obs = [done |-> FALSE]
HandlersAtRest ==
    ConsolidateAtRest /\ RecallAtRest /\ LlmAtRest /\ QueryAtRest

ReflectAtRest ==
    /\ InitReflect
    /\ r_in = [memories |-> <<>>, user_message |-> <<"p", "o", "r", "t">>,
               assistant_reply |-> <<>>]

InitSpecQueue ==
    InitQueue /\ InitStore /\ CursorAtRest /\ AdapterAtRest /\ ReflectAtRest
        /\ ObserveAtRest /\ HandlersAtRest /\ SalienceAtRest

SpecQueue == InitSpecQueue /\ [][NextQueue]_vars

InitSpecStore ==
    QueueAtRest /\ InitStore /\ CursorAtRest /\ AdapterAtRest /\ ReflectAtRest
        /\ ObserveAtRest /\ HandlersAtRest /\ SalienceAtRest

SpecStore == InitSpecStore /\ [][NextStore]_vars

InitSpecCursor ==
    QueueAtRest /\ InitStore /\ InitCursor /\ AdapterAtRest /\ ReflectAtRest
        /\ ObserveAtRest /\ HandlersAtRest /\ SalienceAtRest

SpecCursor == InitSpecCursor /\ [][NextCursor]_vars

InitSpecAdapter ==
    QueueAtRest /\ InitStore /\ CursorAtRest /\ InitAdapter /\ ReflectAtRest
        /\ ObserveAtRest /\ HandlersAtRest /\ SalienceAtRest

SpecAdapter == InitSpecAdapter /\ [][NextAdapter]_vars

InitSpecReflect ==
    QueueAtRest /\ InitStore /\ CursorAtRest /\ AdapterAtRest /\ InitReflect
        /\ ObserveAtRest /\ HandlersAtRest /\ SalienceAtRest

SpecReflect == InitSpecReflect /\ [][NextReflect]_vars

InitSpecSalience ==
    QueueAtRest /\ InitStore /\ CursorAtRest /\ AdapterAtRest /\ ReflectAtRest
        /\ ObserveAtRest /\ HandlersAtRest /\ InitSalience

SpecSalience == InitSpecSalience /\ [][NextSalience]_vars

InitSpecObserve ==
    QueueAtRest /\ InitStore /\ CursorAtRest /\ AdapterAtRest /\ ReflectAtRest
        /\ ObserveAtRest /\ HandlersAtRest /\ SalienceAtRest

SpecObserve == InitSpecObserve /\ [][NextObserve]_vars

InitSpecConsolidate ==
    QueueAtRest /\ InitStore /\ CursorAtRest /\ AdapterAtRest /\ ReflectAtRest
        /\ ObserveAtRest /\ InitConsolidate /\ RecallAtRest /\ LlmAtRest
        /\ QueryAtRest /\ SalienceAtRest

SpecConsolidate == InitSpecConsolidate /\ [][NextConsolidate]_vars

InitSpecRecall ==
    QueueAtRest /\ InitStore /\ CursorAtRest /\ AdapterAtRest /\ ReflectAtRest
        /\ ObserveAtRest /\ HandlersAtRest /\ SalienceAtRest

SpecRecall == InitSpecRecall /\ [][NextRecall]_vars

InitSpecLlm ==
    QueueAtRest /\ InitStore /\ CursorAtRest /\ AdapterAtRest /\ ReflectAtRest
        /\ ObserveAtRest /\ ConsolidateAtRest /\ RecallAtRest /\ InitLlm
        /\ QueryAtRest /\ SalienceAtRest

InitSpecScope ==
    QueueAtRest /\ InitStore /\ CursorAtRest /\ AdapterAtRest /\ ReflectAtRest
        /\ ObserveAtRest /\ InitScope /\ RecallAtRest /\ LlmAtRest
        /\ QueryAtRest /\ SalienceAtRest

SpecScope == InitSpecScope /\ [][NextScope]_vars

InitSpecResend ==
    QueueAtRest /\ InitStore /\ CursorAtRest /\ AdapterAtRest /\ ReflectAtRest
        /\ InitResend /\ HandlersAtRest /\ SalienceAtRest

\* A request in the handler goes on while the process lives, a dead process
\* is started again, and the source sends again what was accepted
SpecResend ==
    /\ InitSpecResend
    /\ [][NextResend]_vars
    /\ WF_vars(ObserveEnqueue)
    /\ WF_vars(OnStartup)
    /\ WF_vars(Resend)

InitSpecQuery ==
    QueueAtRest /\ InitStore /\ CursorAtRest /\ AdapterAtRest /\ ReflectAtRest
        /\ ObserveAtRest /\ HandlersAtRest /\ SalienceAtRest

SpecQuery == InitSpecQuery /\ [][NextQuery]_vars

\* Every step of generate_reply is taken in the end: httpx.post returns or
\* raises within its timeout, and time.sleep(0.5) returns.
SpecLlm == InitSpecLlm /\ [][NextLlm]_vars /\ WF_vars(NextLlm)
=============================================================================
